---------------------------- MODULE Spec2Model ----------------------------
(***************************************************************************)
(* A model of torch/onnx/utils.py: the export orchestrator (_export,       *)
(* export_to_pretty_string, unconvertible_ops), its scoped model-mode      *)
(* context manager, the configuration resolvers and the dynamic-axes       *)
(* validation.                                                             *)
(*                                                                         *)
(* The program is sequential.  Re-entrancy arises because the work phase   *)
(* runs user code (the model's forward while tracing, registered symbolic  *)
(* functions), which may itself call one of the three entry points: the    *)
(* model keeps a call stack of frames, and a call can be pushed while the  *)
(* frame on top is in its work phase.                                      *)
(*                                                                         *)
(* Python's None is modelled as the empty sequence <<>> and a present      *)
(* value v as <<v>> wherever an optional integer or boolean is stored;     *)
(* optional enumeration values use the string "None".                      *)
(***************************************************************************)
EXTENDS Integers, Sequences, FiniteSets, TLC

VARIABLES
    IN_ONNX_EXPORT,             \* utils.__IN_ONNX_EXPORT
    export_onnx_opset_version,  \* symbolic_helper._export_onnx_opset_version
    operator_export_type,       \* symbolic_helper._operator_export_type
    onnx_shape_inference,       \* symbolic_helper._onnx_shape_inference
    training_mode,              \* symbolic_helper._training_mode
    trace_module_map,           \* torch.jit._trace._trace_module_map
    CAFFE2_ATEN_FALLBACK,       \* torch.onnx._CAFFE2_ATEN_FALLBACK (build flag)
    model_training,             \* model.training of the nn.Module being exported
    stack,                      \* call stack of entry-point frames, top last
    calls,                      \* number of entry-point calls made so far
    cfg,                        \* inputs/results of the configuration resolvers
    da,                         \* inputs/results of _validate_dynamic_axes
    sn,                         \* graph and results of _set_input_and_output_names
    rs,                         \* inputs/results of _run_symbolic_function
    uo,                         \* graph and results of the unconvertible_ops scan
    mg,                         \* locals of _model_to_graph and the module's _params_dict
    og,                         \* position and pass log of _optimize_graph
    ex,                         \* arguments and event log of the body of _export
    st,                         \* graph handed to _split_tensor_list_constants
    cr,                         \* symbolic_registry._registry and the custom-op call made on it
    th                          \* threads calling _export concurrently

globals == <<IN_ONNX_EXPORT, export_onnx_opset_version, operator_export_type,
             onnx_shape_inference, training_mode, trace_module_map,
             CAFFE2_ATEN_FALLBACK, model_training>>

vars == <<IN_ONNX_EXPORT, export_onnx_opset_version, operator_export_type,
          onnx_shape_inference, training_mode, trace_module_map,
          CAFFE2_ATEN_FALLBACK, model_training, stack, calls, cfg, da,
          sn, rs, uo, mg, og, ex, st, cr, th>>

\* the variables of the graph pipeline and of the body of _export
pipeline == <<mg, og, ex, st, cr, th>>

---------------------------------------------------------------------------
(* Bounds of the model *)

\* number of entry-point calls in one run of the process; calls may follow
\* one another or nest (an export started from user code that runs inside
\* another export's work phase)
MaxCalls == 2

\* longest list of axes given for one name in dynamic_axes
MaxAxes == 3

\* number of outputs of the graph handed to _set_input_and_output_names
MaxOutputs == 3

\* number of top-level nodes of the graph a model traces to
MaxNodes == 2

\* number of tensors in the value of a list constant
MaxElements == 2

\* number of calls of register_custom_op_symbolic and
\* unregister_custom_op_symbolic
MaxRegistryCalls == 2

\* number of calls of _export each thread makes
MaxThreadCalls == 2

---------------------------------------------------------------------------
(* Enumerations and constants of the program *)

None == <<>>

Some(v) == <<v>>

\* torch.onnx.symbolic_helper._default_onnx_opset_version
default_onnx_opset_version == 9

\* torch.onnx.symbolic_helper._onnx_main_opset
onnx_main_opset == 14

\* torch.onnx.symbolic_helper._onnx_stable_opsets
onnx_stable_opsets == 7..13

\* Opset 12 is the first with training-amenable Dropout/BatchNorm
TrainingOpset == 12

\* Below opset 9 only ONNX IR v3 is allowed
IRv4Opset == 9

OperatorExportTypes == {"ONNX", "ONNX_ATEN", "ONNX_ATEN_FALLBACK", "ONNX_FALLTHROUGH"}

TrainingModes == {"EVAL", "PRESERVE", "TRAINING"}

\* the model argument: an nn.Module, an nn.DataParallel wrapper, or a
\* torch.jit.ScriptFunction (which has neither .training nor .modules())
ModelKinds == {"Module", "DataParallel", "ScriptFunction"}

EntryPoints == {"_export", "export_to_pretty_string", "unconvertible_ops"}


\* export_modules_as_functions: False (or an empty set), True (or a set of
\* module types), or a set holding something that is not a type
ExportModulesAsFunctionsArgs == {"False", "True", "BadSet"}

\* operator_export_type arguments of the entry points: omitted, the native
\* type and one other (the orchestrator only stores the value and compares
\* it with ONNX)
ExportTypeArgs == {"ONNX", "ONNX_FALLTHROUGH"}

\* opset_version arguments: None, a supported version other than the
\* default, and a version _set_opset_version rejects
OpsetArgs == {None, Some(TrainingOpset), Some(onnx_main_opset + 1)}

---------------------------------------------------------------------------
(* State of the process before any export *)

InitGlobals ==
    /\ IN_ONNX_EXPORT = FALSE
    /\ export_onnx_opset_version = default_onnx_opset_version
    /\ operator_export_type = "None"
    /\ onnx_shape_inference = FALSE
    /\ training_mode = None
    /\ trace_module_map = "None"
    /\ model_training \in BOOLEAN

IdleCfg == [pc |-> "idle"]

IdleDa == [pc |-> "idle"]

IdleSn == [pc |-> "idle"]

IdleRs == [pc |-> "idle"]

IdleUo == [pc |-> "idle"]

IdleMg == [pc |-> "idle"]

IdleOg == [pc |-> "idle"]

IdleEx == [pc |-> "idle"]

IdleSt == [pc |-> "idle"]

\* none of the graph pipeline and the body of _export has been called
IdleCr == [pc |-> "idle"]

IdleTh == [pc |-> "idle"]

IdlePipeline ==
    /\ mg = IdleMg /\ og = IdleOg /\ ex = IdleEx /\ st = IdleSt
    /\ cr = IdleCr /\ th = IdleTh

\* The mutable globals as one record g, so that a block of statements is an
\* operator from the globals before it to the globals after it
Globals ==
    [IN_ONNX_EXPORT |-> IN_ONNX_EXPORT,
     export_onnx_opset_version |-> export_onnx_opset_version,
     operator_export_type |-> operator_export_type,
     onnx_shape_inference |-> onnx_shape_inference,
     training_mode |-> training_mode,
     trace_module_map |-> trace_module_map,
     model_training |-> model_training]

SetGlobals(g) ==
    /\ IN_ONNX_EXPORT' = g.IN_ONNX_EXPORT
    /\ export_onnx_opset_version' = g.export_onnx_opset_version
    /\ operator_export_type' = g.operator_export_type
    /\ onnx_shape_inference' = g.onnx_shape_inference
    /\ training_mode' = g.training_mode
    /\ trace_module_map' = g.trace_module_map
    /\ model_training' = g.model_training
    /\ UNCHANGED CAFFE2_ATEN_FALLBACK

\* What a block of statements leaves behind: the globals, the exception it
\* raised ("none" when it fell through) and the frame's local
\* is_originally_training (None while unbound)
Outcome(g, exc, orig) == [g |-> g, exc |-> exc, is_originally_training |-> orig]

---------------------------------------------------------------------------
(* Helpers of symbolic_helper used by the entry points *)

\* symbolic_helper._set_opset_version accepts the default, the stable and
\* the main opset and raises ValueError for any other version
IsSupportedOpset(v) ==
    v = default_onnx_opset_version \/ v \in onnx_stable_opsets \/ v = onnx_main_opset

is_in_onnx_export == IN_ONNX_EXPORT

---------------------------------------------------------------------------
(* The call stack *)

Top == stack[Len(stack)]

Running(fn, pc) == stack # <<>> /\ Top.fn = fn /\ Top.pc = pc

SetTop(f) == [stack EXCEPT ![Len(stack)] = f]

\* A call of an entry point: from the interpreter's top level, or from user
\* code running inside the work phase of the frame on top.  The field mode
\* is the training argument while the body of the with statement runs; the fields
\* *_at_entry are history: the in-progress flag at the call and, for a
\* call of _export, the two settings it is about to overwrite.
Call(fn, kind) ==
    /\ calls < MaxCalls
    /\ IF stack = <<>> THEN TRUE ELSE Top.pc = "work"
    /\ calls' = calls + 1
    /\ stack' = Append(stack,
          [fn |-> fn, pc |-> "start", kind |-> kind,
           is_originally_training |-> None,
           mode |-> "unset",
           exc |-> "none",
           in_export_at_entry |-> IN_ONNX_EXPORT,
           settings_at_entry |->
               IF fn = "_export"
               THEN Some([export_onnx_opset_version |-> export_onnx_opset_version,
                          operator_export_type |-> operator_export_type])
               ELSE None])
    /\ UNCHANGED <<globals, cfg, da, sn, rs, uo, pipeline>>

\* Only _export tells a DataParallel wrapper from any other nn.Module
KindsOf(fn) == IF fn = "_export" THEN ModelKinds ELSE ModelKinds \ {"DataParallel"}

CallEntryPoint == \E fn \in EntryPoints : \E kind \in KindsOf(fn) : Call(fn, kind)

\* The frame on top has returned or raised: control is back in the caller
\* (user code in the caller's work phase may catch what was raised).
Return ==
    /\ stack # <<>>
    /\ Top.pc = "return"
    /\ stack' = SubSeq(stack, 1, Len(stack) - 1)
    /\ UNCHANGED <<globals, calls, cfg, da, sn, rs, uo, pipeline>>

\* The frame on top runs from its first statement up to the body of its
\* with statement (pc "work"), or to the exception that ends it
Enter(out, mode) ==
    /\ SetGlobals(out.g)
    /\ stack' = SetTop([Top EXCEPT
                          !.pc = IF out.exc = "none" THEN "work" ELSE "return",
                          !.exc = out.exc,
                          !.mode = IF out.exc = "none" THEN mode ELSE "unset",
                          !.is_originally_training = out.is_originally_training])
    /\ UNCHANGED <<calls, cfg, da, sn, rs, uo, pipeline>>

\* The frame on top runs from the end of the body to its return or raise
Leave(out) ==
    /\ SetGlobals(out.g)
    /\ stack' = SetTop([Top EXCEPT !.pc = "return", !.exc = out.exc,
                                   !.mode = "unset"])
    /\ UNCHANGED <<calls, cfg, da, sn, rs, uo, pipeline>>

---------------------------------------------------------------------------
(* exporter_context, lines 38-104 *)

\* A context manager that takes PRESERVE for TRAINING
IsExportTrainingWheneverPreserve(mode, is_originally_training) ==
    mode \in {"TRAINING", "PRESERVE"}

\* select_model_mode_for_export, lines 43-64: mode None is EVAL
IsExportTraining(mode, is_originally_training) ==
    LET m == IF mode = "None" THEN "EVAL" ELSE mode
    IN  m = "TRAINING" \/ (m = "PRESERVE" /\ is_originally_training)

\* Entering the with statement (lines 40-68, then the apex hook removal,
\* which does not touch the state modelled here).  A ScriptFunction is left
\* alone.
EnterContext(g, kind, mode) ==
    IF kind = "ScriptFunction"
    THEN Outcome(g, "none", None)
    ELSE Outcome([g EXCEPT
                    !.training_mode = Some(IsExportTraining(mode, g.model_training)),
                    !.model_training = IsExportTraining(mode, g.model_training)],
                 "none", Some(g.model_training))

\* A with statement whose exit does not put the mode back
ExitContextNoRestore(g, kind, is_originally_training) == g

\* Leaving the with statement, normally or by an exception (lines 71-73)
ExitContext(g, kind, is_originally_training) ==
    IF kind = "ScriptFunction"
    THEN g
    ELSE [g EXCEPT !.model_training = is_originally_training[1]]

\* How the body of the with statement ends: it returns, or an error raised
\* in it (by tracing, conversion, serialization, writing or checking, or by
\* a nested call) propagates
BodyResults == {"none", "RuntimeError"}

---------------------------------------------------------------------------
(* _export, lines 654-786 *)

\* line 661 and _setup_trace_module_map: the global map is assigned inside
\* __setup_trace_module_map, after model.modules() has been enumerated
\* (which a ScriptFunction does not have) and before the elements of a set
\* argument are checked by _find_typename.
SetupTraceModuleMap(g, kind, emaf) ==
    IF emaf = "False"
    THEN Outcome(g, "none", None)
    ELSE IF kind = "ScriptFunction"
    THEN Outcome(g, "AttributeError", None)
    ELSE Outcome([g EXCEPT !.trace_module_map = "Map"],
                 IF emaf = "BadSet" THEN "RuntimeError" ELSE "none", None)

\* _reset_trace_module_map, lines 651-652
ResetTraceModuleMap(g) == [g EXCEPT !.trace_module_map = "None"]

\* lines 677-683: the defaults of opset_version and operator_export_type
ResolveOpset(opset_arg) ==
    IF opset_arg = None THEN default_onnx_opset_version ELSE opset_arg[1]

ResolveExportType(oet_arg) ==
    IF oet_arg = "None"
    THEN IF CAFFE2_ATEN_FALLBACK THEN "ONNX_ATEN_FALLBACK" ELSE "ONNX"
    ELSE oet_arg

\* Cleanup placed at the end of the try block instead of in a finally: it is
\* skipped when an exception is on its way out
ExportFinallySkippedOnError(g, exc) ==
    IF exc # "none"
    THEN Outcome(g, exc, None)
    ELSE IF g.IN_ONNX_EXPORT
    THEN Outcome(ResetTraceModuleMap([g EXCEPT !.IN_ONNX_EXPORT = FALSE]), exc, None)
    ELSE Outcome(g, "AssertionError", None)

\* lines 782-785: the finally block; a failed assert leaves the block
ExportFinally(g, exc) ==
    IF g.IN_ONNX_EXPORT
    THEN Outcome(ResetTraceModuleMap([g EXCEPT !.IN_ONNX_EXPORT = FALSE]), exc, None)
    ELSE Outcome(g, "AssertionError", None)

\* lines 672-693, the try block up to the body of the with statement:
\* _set_onnx_shape_inference, then _set_opset_version (which raises for an
\* unsupported opset, before the export type is set), then
\* _set_operator_export_type, then exporter_context is entered
ExportTryConfig(g, kind, osi, opset_arg, oet_arg, mode) ==
    LET g1 == [g EXCEPT !.onnx_shape_inference = osi]
        g2 == [g1 EXCEPT !.export_onnx_opset_version = ResolveOpset(opset_arg),
                         !.operator_export_type = ResolveExportType(oet_arg)]
    IN  IF IsSupportedOpset(ResolveOpset(opset_arg))
        THEN EnterContext(g2, kind, mode)
        ELSE ExportFinally(g1, "ValueError")

\* _export without the assert of line 669
ExportBeginUnguarded(g, kind, emaf, osi, opset_arg, oet_arg, mode) ==
    LET s == SetupTraceModuleMap(g, kind, emaf)
    IN  IF s.exc # "none" THEN s
        ELSE IF kind = "DataParallel" THEN Outcome(s.g, "ValueError", None)
        ELSE ExportTryConfig([s.g EXCEPT !.IN_ONNX_EXPORT = TRUE],
                             kind, osi, opset_arg, oet_arg, mode)

\* lines 661-693: trace module map, DataParallel rejection, the guard
\* (assert __IN_ONNX_EXPORT is False; __IN_ONNX_EXPORT = True), the try
ExportBegin(g, kind, emaf, osi, opset_arg, oet_arg, mode) ==
    LET s == SetupTraceModuleMap(g, kind, emaf)
    IN  IF s.exc # "none" THEN s
        ELSE IF kind = "DataParallel" THEN Outcome(s.g, "ValueError", None)
        ELSE IF s.g.IN_ONNX_EXPORT THEN Outcome(s.g, "AssertionError", None)
        ELSE ExportTryConfig([s.g EXCEPT !.IN_ONNX_EXPORT = TRUE],
                             kind, osi, opset_arg, oet_arg, mode)

\* the with statement is left (lines 71-73), then the finally block runs
ExportEnd(g, kind, is_originally_training, exc) ==
    ExportFinally(ExitContext(g, kind, is_originally_training), exc)

ExportStart ==
    /\ Running("_export", "start")
    /\ \E emaf \in ExportModulesAsFunctionsArgs, osi \in BOOLEAN,
          opset_arg \in OpsetArgs, oet_arg \in ExportTypeArgs \cup {"None"},
          mode \in TrainingModes \cup {"None"} :
        Enter(ExportBegin(Globals, Top.kind, emaf, osi, opset_arg, oet_arg, mode),
              mode)

ExportFinish ==
    /\ Running("_export", "work")
    /\ \E exc \in BodyResults :
        Leave(ExportEnd(Globals, Top.kind, Top.is_originally_training, exc))

---------------------------------------------------------------------------
(* export_to_pretty_string, lines 560-589 *)

\* lines 567-575: no guard and no try; an unsupported opset raises out of
\* the function before the other two setters run
PrettyBegin(g, kind, opset_arg, oet_arg, mode) ==
    IF IsSupportedOpset(ResolveOpset(opset_arg))
    THEN EnterContext([g EXCEPT !.export_onnx_opset_version = ResolveOpset(opset_arg),
                                !.operator_export_type = oet_arg,
                                !.onnx_shape_inference = TRUE],
                      kind, mode)
    ELSE Outcome(g, "ValueError", None)

PrettyStart ==
    /\ Running("export_to_pretty_string", "start")
    /\ \E opset_arg \in OpsetArgs, oet_arg \in ExportTypeArgs,
          mode \in TrainingModes \cup {"None"} :
        Enter(PrettyBegin(Globals, Top.kind, opset_arg, oet_arg, mode), mode)

PrettyFinish ==
    /\ Running("export_to_pretty_string", "work")
    /\ \E exc \in BodyResults :
        Leave(Outcome(ExitContext(Globals, Top.kind, Top.is_originally_training),
                      exc, None))

---------------------------------------------------------------------------
(* unconvertible_ops, lines 591-625 *)

\* lines 607-613: only the opset version is set; ONNX_FALLTHROUGH is a
\* local passed to _model_to_graph
UnconvertibleBegin(g, kind, opset_arg, mode) ==
    IF IsSupportedOpset(ResolveOpset(opset_arg))
    THEN EnterContext([g EXCEPT !.export_onnx_opset_version = ResolveOpset(opset_arg)],
                      kind, mode)
    ELSE Outcome(g, "ValueError", None)

UnconvertibleStart ==
    /\ Running("unconvertible_ops", "start")
    /\ \E opset_arg \in OpsetArgs, mode \in TrainingModes \cup {"None"} :
        Enter(UnconvertibleBegin(Globals, Top.kind, opset_arg, mode), mode)

UnconvertibleFinish ==
    /\ Running("unconvertible_ops", "work")
    /\ \E exc \in BodyResults :
        Leave(Outcome(ExitContext(Globals, Top.kind, Top.is_originally_training),
                      exc, None))

---------------------------------------------------------------------------
(* The export orchestrator as a whole *)

\* The orchestrator is explored for a build without the Caffe2 ATen fallback
Init ==
    /\ InitGlobals
    /\ CAFFE2_ATEN_FALLBACK = FALSE
    /\ stack = <<>>
    /\ calls = 0
    /\ IdlePipeline
    /\ cfg = IdleCfg
    /\ da = IdleDa
    /\ sn = IdleSn
    /\ rs = IdleRs
    /\ uo = IdleUo

Next ==
    \/ CallEntryPoint
    \/ Return
    \/ ExportStart
    \/ ExportFinish
    \/ PrettyStart
    \/ PrettyFinish
    \/ UnconvertibleStart
    \/ UnconvertibleFinish

Spec == Init /\ [][Next]_vars

---------------------------------------------------------------------------
(* The configuration resolvers, lines 278-331 *)

\* warnings.warn: a warning is a tuple naming what is warned about
IgnoredArgument(arg_name) == <<"ignored", arg_name>>

KeepInitializersIgnored == <<"keep_initializers_as_inputs=False ignored">>

ConstantFoldingInTraining == <<"constant folding in training mode">>

\* What a resolver returns and the warnings it issued
Resolved(value, warnings) == [value |-> value, warnings |-> warnings]

\* _resolve_args_by_export_type with the warning issued for every ignored
\* argument, not only for one that was True
ResolveArgsWarnAlways(arg_name, arg_value, oet) ==
    IF oet # "ONNX"
    THEN Resolved(FALSE, <<IgnoredArgument(arg_name)>>)
    ELSE Resolved(arg_value, <<>>)

\* lines 278-286
_resolve_args_by_export_type(arg_name, arg_value, oet) ==
    IF oet # "ONNX"
    THEN Resolved(FALSE, IF arg_value = TRUE
                         THEN <<IgnoredArgument(arg_name)>> ELSE <<>>)
    ELSE Resolved(arg_value, <<>>)

\* _decide_keep_init_as_input with the opset test off by one (<= 8 read as < 8)
DecideKeepInitOffByOne(keep_initializers_as_inputs, oet, opset_version) ==
    IF opset_version < IRv4Opset - 1
    THEN Resolved(TRUE, IF keep_initializers_as_inputs = Some(FALSE)
                        THEN <<KeepInitializersIgnored>> ELSE <<>>)
    ELSE Resolved(IF keep_initializers_as_inputs = None
                  THEN oet # "ONNX"
                  ELSE keep_initializers_as_inputs[1], <<>>)

\* _decide_keep_init_as_input without the export-type test of line 313
DecideKeepInitIgnoringExportType(keep_initializers_as_inputs, oet, opset_version) ==
    IF opset_version < IRv4Opset
    THEN Resolved(TRUE, IF keep_initializers_as_inputs = Some(FALSE)
                        THEN <<KeepInitializersIgnored>> ELSE <<>>)
    ELSE Resolved(IF keep_initializers_as_inputs = None
                  THEN TRUE
                  ELSE keep_initializers_as_inputs[1], <<>>)

\* lines 304-315, as written: the value of line 312, overwritten by line 314
KeepInitAtLeastV9(keep_initializers_as_inputs, oet) ==
    LET val_keep_init_as_ip == IF keep_initializers_as_inputs = None
                               THEN TRUE
                               ELSE keep_initializers_as_inputs[1]
    IN  IF keep_initializers_as_inputs = None /\ oet = "ONNX"
        THEN FALSE
        ELSE val_keep_init_as_ip

\* lines 289-315
_decide_keep_init_as_input(keep_initializers_as_inputs, oet, opset_version) ==
    IF opset_version < IRv4Opset
    THEN Resolved(TRUE, IF keep_initializers_as_inputs = Some(FALSE)
                        THEN <<KeepInitializersIgnored>> ELSE <<>>)
    ELSE Resolved(KeepInitAtLeastV9(keep_initializers_as_inputs, oet), <<>>)

\* lines 318-319
_decide_add_node_names(add_node_names, oet) ==
    _resolve_args_by_export_type("add_node_names", add_node_names, oet)

\* _decide_constant_folding turning folding off where the code only warns
DecideConstantFoldingForcedOff(do_constant_folding, oet, training) ==
    LET r == _resolve_args_by_export_type("do_constant_folding", do_constant_folding, oet)
    IN  IF r.value /\ training # "None" /\ training # "EVAL"
        THEN Resolved(FALSE, Append(r.warnings, ConstantFoldingInTraining))
        ELSE r

\* lines 322-331: the warning recommends turning folding off; the value is
\* returned as resolved
_decide_constant_folding(do_constant_folding, oet, training) ==
    LET r == _resolve_args_by_export_type("do_constant_folding", do_constant_folding, oet)
    IN  IF r.value /\ training # "None" /\ training # "EVAL"
        THEN Resolved(r.value, Append(r.warnings, ConstantFoldingInTraining))
        ELSE r

\* the opset versions an export can run with
OpsetVersions == onnx_stable_opsets \cup {onnx_main_opset}

\* The arguments of one export, before lines 694-698 resolve them
CfgInputs ==
    [pc : {"keep_init_as_input"},
     keep_initializers_as_inputs : {None, Some(TRUE), Some(FALSE)},
     operator_export_type : OperatorExportTypes,
     opset_version : OpsetVersions,
     add_node_names : BOOLEAN,
     do_constant_folding : BOOLEAN,
     training : TrainingModes \cup {"None"},
     val_keep_init_as_ip : {None},
     val_add_node_names : {None},
     val_do_constant_folding : {None},
     warnings : {<<>>}]

\* lines 694-696
DecideKeepInitAsInput ==
    /\ cfg.pc = "keep_init_as_input"
    /\ LET r == _decide_keep_init_as_input(cfg.keep_initializers_as_inputs,
                                           cfg.operator_export_type,
                                           cfg.opset_version)
       IN  cfg' = [cfg EXCEPT !.pc = "add_node_names",
                              !.val_keep_init_as_ip = Some(r.value),
                              !.warnings = @ \o r.warnings]
    /\ UNCHANGED <<globals, stack, calls, da, sn, rs, uo, pipeline>>

\* line 697
DecideAddNodeNames ==
    /\ cfg.pc = "add_node_names"
    /\ LET r == _decide_add_node_names(cfg.add_node_names, cfg.operator_export_type)
       IN  cfg' = [cfg EXCEPT !.pc = "constant_folding",
                              !.val_add_node_names = Some(r.value),
                              !.warnings = @ \o r.warnings]
    /\ UNCHANGED <<globals, stack, calls, da, sn, rs, uo, pipeline>>

\* line 698
DecideConstantFolding ==
    /\ cfg.pc = "constant_folding"
    /\ LET r == _decide_constant_folding(cfg.do_constant_folding,
                                         cfg.operator_export_type, cfg.training)
       IN  cfg' = [cfg EXCEPT !.pc = "done",
                              !.val_do_constant_folding = Some(r.value),
                              !.warnings = @ \o r.warnings]
    /\ UNCHANGED <<globals, stack, calls, da, sn, rs, uo, pipeline>>

InitConfig ==
    /\ InitGlobals
    /\ CAFFE2_ATEN_FALLBACK = FALSE
    /\ stack = <<>>
    /\ calls = 0
    /\ IdlePipeline
    /\ cfg \in CfgInputs
    /\ da = IdleDa
    /\ sn = IdleSn
    /\ rs = IdleRs
    /\ uo = IdleUo

NextConfig ==
    \/ DecideKeepInitAsInput
    \/ DecideAddNodeNames
    \/ DecideConstantFolding

SpecConfig == InitConfig /\ [][NextConfig]_vars

\* how many times warning w was issued
Count(w, warnings) == Cardinality({i \in 1..Len(warnings) : warnings[i] = w})

---------------------------------------------------------------------------
(* _validate_dynamic_axes, lines 1189-1222 *)

\* An element of a list of axes: an int, or something that is not an int
\* (a float here), whose payload the function never reads
IntAxis(n) == [type |-> "int", val |-> n]

FloatAxis == [type |-> "float", val |-> 0]

\* A value of the dynamic_axes dict: a list of axes, or a dict from axis to
\* name
ListValue(axes) == [type |-> "list", items |-> axes]

DictValue(names) == [type |-> "dict", items |-> names]

\* The dict is kept as the sequence of its items, in insertion order, which
\* is the order line 1206 visits them in
Item(key, value) == [key |-> key, value |-> value]

InvalidName(key) == <<"not a valid input/output name", key>>

GeneratedNames(key) == <<"names generated", key>>

DuplicateAxis(key, x) == <<"duplicate axis", key, x>>

\* The generated name numbered from 0, the index enumerate() yields
GeneratedAxisNameZeroBased(key, i) == key \o "_dynamic_axes_" \o ToString(i)

\* line 1221, for the 0-based index i of enumerate()
GeneratedAxisName(key, i) == key \o "_dynamic_axes_" \o ToString(i + 1)

\* lines 1213-1221: the loop over a list value, from its 0-based index i on,
\* with the value_dict and the warnings built so far
RECURSIVE ConvertAxes(_, _, _, _, _)
ConvertAxes(key, value, i, value_dict, warnings) ==
    IF i >= Len(value)
    THEN [value_dict |-> value_dict, warnings |-> warnings, exc |-> "none"]
    ELSE LET x == value[i + 1]
         IN  IF x.type # "int"
             THEN [value_dict |-> value_dict, warnings |-> warnings,
                   exc |-> "ValueError"]
             ELSE IF x.val \in DOMAIN value_dict
             THEN ConvertAxes(key, value, i + 1, value_dict,
                              Append(warnings, DuplicateAxis(key, x.val)))
             ELSE ConvertAxes(key, value, i + 1,
                              value_dict @@ (x.val :> GeneratedAxisName(key, i)),
                              warnings)

\* lines 1193-1200
ValidNames(model_graph, input_names, output_names) ==
    LET from_graph(names, graph_names) ==
            IF model_graph # None /\ (names = None \/ Len(names[1]) = 0)
            THEN Some(graph_names)
            ELSE names
        or_empty(names) == IF names = None THEN <<>> ELSE names[1]
        ins == or_empty(from_graph(input_names, model_graph[1].inputs))
        outs == or_empty(from_graph(output_names, model_graph[1].outputs))
    IN  {ins[j] : j \in 1..Len(ins)} \cup {outs[j] : j \in 1..Len(outs)}

\* lines 1206-1222: the loop over the items of dynamic_axes, from item k on;
\* a ValueError leaves the items converted so far converted
RECURSIVE ValidateItems(_, _, _, _)
\* The loop of lines 1206-1222 raising for a key that is not a valid name
\* where the code warns
ValidateItemsRejectingUnknownKey(dynamic_axes, valid_names, k, warnings) ==
    IF k > Len(dynamic_axes)
    THEN [dynamic_axes |-> dynamic_axes, warnings |-> warnings, exc |-> "none"]
    ELSE LET key == dynamic_axes[k].key
             value == dynamic_axes[k].value
         IN  IF key \notin valid_names
             THEN [dynamic_axes |-> dynamic_axes, warnings |-> warnings,
                   exc |-> "ValueError"]
             ELSE IF value.type # "list"
             THEN ValidateItems(dynamic_axes, valid_names, k + 1, warnings)
             ELSE LET c == ConvertAxes(key, value.items, 0, <<>>,
                                       Append(warnings, GeneratedNames(key)))
                  IN  IF c.exc # "none"
                      THEN [dynamic_axes |-> dynamic_axes, warnings |-> c.warnings,
                            exc |-> c.exc]
                      ELSE ValidateItems(
                               [dynamic_axes EXCEPT ![k].value = DictValue(c.value_dict)],
                               valid_names, k + 1, c.warnings)

ValidateItems(dynamic_axes, valid_names, k, warnings) ==
    IF k > Len(dynamic_axes)
    THEN [dynamic_axes |-> dynamic_axes, warnings |-> warnings, exc |-> "none"]
    ELSE LET key == dynamic_axes[k].key
             value == dynamic_axes[k].value
             w1 == IF key \notin valid_names
                   THEN Append(warnings, InvalidName(key)) ELSE warnings
         IN  IF value.type # "list"
             THEN ValidateItems(dynamic_axes, valid_names, k + 1, w1)
             ELSE LET c == ConvertAxes(key, value.items, 0, <<>>,
                                       Append(w1, GeneratedNames(key)))
                  IN  IF c.exc # "none"
                      THEN [dynamic_axes |-> dynamic_axes, warnings |-> c.warnings,
                            exc |-> c.exc]
                      ELSE ValidateItems(
                               [dynamic_axes EXCEPT ![k].value = DictValue(c.value_dict)],
                               valid_names, k + 1, c.warnings)

\* lines 1189-1222
_validate_dynamic_axes(dynamic_axes, model_graph, input_names, output_names) ==
    IF Len(dynamic_axes) = 0
    THEN [dynamic_axes |-> dynamic_axes, warnings |-> <<>>, exc |-> "none"]
    ELSE ValidateItems(dynamic_axes,
                       ValidNames(model_graph, input_names, output_names),
                       1, <<>>)

\* Arguments the function is explored with
AxisElements == {IntAxis(0), IntAxis(2), FloatAxis}

AxisLists == UNION {[1..n -> AxisElements] : n \in 0..MaxAxes}

AxisDicts == {(0 :> "batch"), (0 :> "batch" @@ 2 :> "width")}

AxesValues == {ListValue(l) : l \in AxisLists} \cup {DictValue(d) : d \in AxisDicts}

AxesKeys == {"x", "z"}

\* dicts with distinct keys, in every insertion order
DynamicAxesArgs ==
    {<<>>}
    \cup {<<Item(k, v)>> : k \in AxesKeys, v \in AxesValues}
    \cup {<<Item(ks[1], v1), Item(ks[2], v2)>> :
            ks \in {p \in AxesKeys \X AxesKeys : p[1] # p[2]},
            v1 \in AxesValues, v2 \in AxesValues}

\* model.graph of a ScriptModule or ScriptFunction; other models have none
ModelGraphs == {None, Some([inputs |-> <<"x">>, outputs |-> <<"y">>])}

InputNamesArgs == {None, Some(<<>>), Some(<<"x">>)}

OutputNamesArgs == {None, Some(<<"y">>)}

\* line 708; args keeps the dict as it was passed
ValidateDynamicAxes ==
    /\ da.pc = "call"
    /\ LET r == _validate_dynamic_axes(da.args, da.model_graph,
                                       da.input_names, da.output_names)
       IN  da' = [da EXCEPT !.pc = "done",
                            !.dynamic_axes = r.dynamic_axes,
                            !.warnings = r.warnings,
                            !.exc = r.exc]
    /\ UNCHANGED <<globals, stack, calls, cfg, sn, rs, uo, pipeline>>

InitDynamicAxes ==
    /\ InitGlobals
    /\ model_training = FALSE
    /\ CAFFE2_ATEN_FALLBACK = FALSE
    /\ stack = <<>>
    /\ calls = 0
    /\ IdlePipeline
    /\ cfg = IdleCfg
    /\ sn = IdleSn
    /\ rs = IdleRs
    /\ uo = IdleUo
    /\ \E dynamic_axes \in DynamicAxesArgs, model_graph \in ModelGraphs,
          input_names \in InputNamesArgs, output_names \in OutputNamesArgs :
        da = [pc |-> "call",
              args |-> dynamic_axes,
              dynamic_axes |-> dynamic_axes,
              model_graph |-> model_graph,
              input_names |-> input_names,
              output_names |-> output_names,
              warnings |-> <<>>,
              exc |-> "none"]

NextDynamicAxes == ValidateDynamicAxes

SpecDynamicAxes == InitDynamicAxes /\ [][NextDynamicAxes]_vars

---------------------------------------------------------------------------
(* _set_input_and_output_names, lines 801-828 *)

\* A graph, as far as the function reads and writes it: names[v] is the debug
\* name of value v (values are numbered from 1), inputs and outputs are the
\* values of graph.inputs() and of the return node's inputs, and identities
\* lists the onnx::Identity nodes created, each with the value it reads and
\* the value it produces
Graph(names, inputs, outputs, identities) ==
    [names |-> names, inputs |-> inputs, outputs |-> outputs,
     identities |-> identities]

\* Value.debugName() of a value that was never named: str(unique())
DefaultDebugName(v) == ToString(v)

\* Value.setDebugName: the debug name is metadata of the value
SetDebugName(graph, v, name) == [graph EXCEPT !.names[v] = name]

\* lines 816-821: graph.create, insertAfter, addInput and replaceInput(i, ...)
\* for the 0-based output position i; the new value gets the next number
InsertIdentity(graph, node, i) ==
    LET out == Len(graph.names) + 1
    IN  [graph EXCEPT !.names = Append(@, DefaultDebugName(out)),
                      !.identities = Append(@, [input |-> node, output |-> out]),
                      !.outputs[i + 1] = out]

\* the loop of lines 812-826 without the duplicate test of lines 814-822
RECURSIVE SetNamesLoop(_, _, _, _, _, _)
SetNamesLoopMergingDuplicates(graph, node_list, name_list, descriptor, i, output_node_set) ==
    IF i >= Len(name_list) \/ i >= Len(node_list)
    THEN graph
    ELSE LET node == node_list[i + 1]
             name == name_list[i + 1]
         IN  SetNamesLoop(IF graph.names[node] # name
                          THEN SetDebugName(graph, node, name) ELSE graph,
                          node_list, name_list, descriptor, i + 1, output_node_set)

\* lines 812-826: the loop over zip(name_list, node_list), from index i on
SetNamesLoop(graph, node_list, name_list, descriptor, i, output_node_set) ==
    IF i >= Len(name_list) \/ i >= Len(node_list)
    THEN graph
    ELSE LET duplicated == descriptor = "output" /\ node_list[i + 1] \in output_node_set
             g1 == IF duplicated
                   THEN InsertIdentity(graph, node_list[i + 1], i) ELSE graph
             node == IF duplicated THEN g1.outputs[i + 1] ELSE node_list[i + 1]
             name == name_list[i + 1]
             seen == IF descriptor = "output"
                     THEN output_node_set \cup {node} ELSE output_node_set
         IN  SetNamesLoop(IF g1.names[node] # name
                          THEN SetDebugName(g1, node, name) ELSE g1,
                          node_list, name_list, descriptor, i + 1, seen)

\* set_names accepting a list of names longer than the list of nodes
SetNamesUnchecked(graph, node_list, name_list, descriptor) ==
    IF name_list = None
    THEN [graph |-> graph, exc |-> "none"]
    ELSE [graph |-> SetNamesLoop(graph, node_list, name_list[1], descriptor, 0, {}),
          exc |-> "none"]

\* lines 802-826
set_names(graph, node_list, name_list, descriptor) ==
    IF name_list = None
    THEN [graph |-> graph, exc |-> "none"]
    ELSE IF Len(name_list[1]) > Len(node_list)
    THEN [graph |-> graph, exc |-> "RuntimeError"]
    ELSE [graph |-> SetNamesLoop(graph, node_list, name_list[1], descriptor, 0, {}),
          exc |-> "none"]

\* the two calls of lines 827-828 in the other order
SetOutputThenInputNames(graph, input_names, output_names) ==
    LET r == set_names(graph, graph.outputs, output_names, "output")
    IN  IF r.exc # "none"
        THEN r
        ELSE set_names(r.graph, r.graph.inputs, input_names, "input")

\* lines 801-828
_set_input_and_output_names(graph, input_names, output_names) ==
    LET r == set_names(graph, graph.inputs, input_names, "input")
    IN  IF r.exc # "none"
        THEN r
        ELSE set_names(r.graph, r.graph.outputs, output_names, "output")

\* Graphs and name lists the function is explored with: three values, the
\* first one named by the tracer; a graph's inputs are distinct values, its
\* outputs need not be; the names of one list are pairwise distinct
InitialNames == <<"x", DefaultDebugName(2), DefaultDebugName(3)>>

GraphInputs == {<<>>, <<1>>, <<1, 2>>, <<2, 1>>}

GraphOutputs == UNION {[1..n -> 1..Len(InitialNames)] : n \in 1..MaxOutputs}

Injective(names) ==
    \A i, j \in 1..Len(names) : names[i] = names[j] => i = j

NameLists(pool) ==
    {None} \cup {Some(l) : l \in {m \in UNION {[1..n -> pool] : n \in 0..Cardinality(pool)} :
                                    Injective(m)}}

InputNameLists == NameLists({"x", "a"})

OutputNameLists == NameLists({"x", "a", "b"})

\* line 526 (_model_to_graph); graph0 keeps the graph as it was passed
SetInputAndOutputNames ==
    /\ sn.pc = "call"
    /\ LET r == _set_input_and_output_names(sn.graph0, sn.input_names, sn.output_names)
       IN  sn' = [sn EXCEPT !.pc = "done", !.graph = r.graph, !.exc = r.exc]
    /\ UNCHANGED <<globals, stack, calls, cfg, da, rs, uo, pipeline>>

InitNames ==
    /\ InitGlobals
    /\ model_training = FALSE
    /\ CAFFE2_ATEN_FALLBACK = FALSE
    /\ stack = <<>>
    /\ calls = 0
    /\ IdlePipeline
    /\ cfg = IdleCfg
    /\ da = IdleDa
    /\ rs = IdleRs
    /\ uo = IdleUo
    /\ \E inputs \in GraphInputs, outputs \in GraphOutputs,
          input_names \in InputNameLists, output_names \in OutputNameLists :
        sn = [pc |-> "call",
              graph0 |-> Graph(InitialNames, inputs, outputs, <<>>),
              graph |-> Graph(InitialNames, inputs, outputs, <<>>),
              input_names |-> input_names,
              output_names |-> output_names,
              exc |-> "none"]

NextNames == SetInputAndOutputNames

SpecNames == InitNames /\ [][NextNames]_vars

---------------------------------------------------------------------------
(* _run_symbolic_function, lines 1021-1087 *)

\* A node, as far as the function reads it: n.kind() is ns "::" op, followed
\* by "_" for an in-place variant; an attribute has a name, the kind string
\* n.kindOf(k) gives (a sequence of characters) and a value; outputsSize is
\* n.outputsSize()
Node(ns, op, inplace, attrs, outputs) ==
    [ns |-> ns, op |-> op, inplace |-> inplace, attrs |-> attrs,
     outputsSize |-> outputs]

Attribute(name, kind_of, value) == [name |-> name, kindOf |-> kind_of, value |-> value]

\* An exception: its class and its args tuple
Exception(type, args) == [type |-> type, args |-> args]

\* sym_registry.UnsupportedOperatorError(domain, op_name, opset_version)
UnsupportedOperatorError(domain, op_name, opset_version) ==
    Exception("UnsupportedOperatorError", <<domain, op_name, opset_version>>)

\* the classes an 'except RuntimeError' clause catches
IsRuntimeError(e) == e.type \in {"RuntimeError", "UnsupportedOperatorError"}

\* sym_registry.is_registered_op(op_name, domain, version)
is_registered_op(registry, op_name, domain, version) ==
    <<domain, op_name, version>> \in registry

\* What a try body or a call ends with: a returned value or an exception, and
\* the call it made (None when it made none)
Returned(value, called) == [value |-> Some(value), exc |-> None, called |-> called]

Raised(e, called) == [value |-> None, exc |-> Some(e), called |-> called]

\* What a callee does when called: it returns, or raises an exception
Returns == [type |-> "returns", args |-> <<>>]

\* A call of callee with args that ends as outcome says
Invoke(callee, args, outcome) ==
    LET called == Some([callee |-> callee, args |-> args])
    IN  IF outcome = Returns
        THEN Returned([by |-> callee, args |-> args], called)
        ELSE Raised(outcome, called)

\* lines 1008-1013
_should_aten_fallback(registry, ns, op_name, opset_version, oet) ==
    LET is_exportable_aten_op == is_registered_op(registry, op_name, "", opset_version)
        is_onnx_aten_export == oet = "ONNX_ATEN"
        is_aten_fallback_export == oet = "ONNX_ATEN_FALLBACK"
    IN  is_onnx_aten_export \/ (~is_exportable_aten_op /\ is_aten_fallback_export)

\* lines 1065, 1075: {k: n[k] for k in n.attributeNames()}
RawAttrs(n) == [i \in 1..Len(n.attrs) |-> <<n.attrs[i].name, n.attrs[i].value>>]

\* lines 1076, 1080: {k + "_" + n.kindOf(k)[0]: n[k] ...}
SuffixedAttrs(n) ==
    [i \in 1..Len(n.attrs) |->
        <<n.attrs[i].name \o "_" \o n.attrs[i].kindOf[1], n.attrs[i].value>>]

\* n.kind() as the pieces lines 1040-1044 tell apart: the namespace, the
\* separator, the operator name and the in-place marker
KindPieces(n) == <<n.ns, "::", n.op>> \o (IF n.inplace THEN <<"_">> ELSE <<>>)

\* lines 1040-1043: ns_op_name is the kind without one trailing "_"
StripInplace(kind) ==
    IF kind[Len(kind)] = "_" THEN SubSeq(kind, 1, Len(kind) - 1) ELSE kind

RECURSIVE Concatenated(_)

\* the string a sequence of pieces spells
Concatenated(pieces) ==
    IF pieces = <<>> THEN "" ELSE pieces[1] \o Concatenated(Tail(pieces))

\* line 1044: ns, op_name = ns_op_name.split("::"), for a kind that holds the
\* separator once
SplitKind(ns_op_name) ==
    LET i == CHOOSE i \in 1..Len(ns_op_name) : ns_op_name[i] = "::"
    IN  [ns |-> Concatenated(SubSeq(ns_op_name, 1, i - 1)),
         op_name |-> Concatenated(SubSeq(ns_op_name, i + 1, Len(ns_op_name)))]

\* a domain rule sending every quantized node to the caffe2 domain
DomainCaffe2ForQuantized(ns, is_caffe2_aten_fallback) ==
    IF ns = "aten" THEN ""
    ELSE IF ns = "quantized" THEN "caffe2"
    ELSE ns

\* lines 1046-1053: the registry domain of a namespace
Domain(ns, is_caffe2_aten_fallback) ==
    IF ns = "aten" THEN ""
    ELSE IF ns = "quantized"
    THEN (IF is_caffe2_aten_fallback THEN "caffe2" ELSE "")
    ELSE ns

\* lines 1032-1055: the (domain, op name, version) the registry is asked for
LookupKey(n, oet, opset_version, caffe2) ==
    <<Domain(SplitKind(StripInplace(KindPieces(n))).ns,
             oet = "ONNX_ATEN_FALLBACK" /\ caffe2),
      SplitKind(StripInplace(KindPieces(n))).op_name,
      opset_version>>

\* lines 999-1005: the function the registry holds for the key, None for an
\* unregistered key in ONNX_FALLTHROUGH; get_registered_op raises for a key
\* it does not hold
_find_symbolic_in_registry(registry, domain, op_name, opset_version, oet, symbolic_fn) ==
    IF ~is_registered_op(registry, op_name, domain, opset_version)
    THEN IF oet = "ONNX_FALLTHROUGH"
         THEN Returned(None, None)
         ELSE Raised(UnsupportedOperatorError(domain, op_name, opset_version), None)
    ELSE Returned(Some(symbolic_fn), None)

\* lines 1016-1019, for a function whose first parameter is annotated with a
\* class or not annotated
_need_symbolic_context(symbolic_fn) ==
    symbolic_fn.params > 0 /\ symbolic_fn.annotation = "SymbolicContext"

\* the try body with the fallback tests made before the registry lookup
TryBodyFallbackFirst(n, oet, opset_version, caffe2, registry, symbolic_fn, outcome) ==
    LET is_caffe2_aten_fallback == oet = "ONNX_ATEN_FALLBACK" /\ caffe2
        ns == n.ns
        op_name == n.op
        domain == Domain(ns, is_caffe2_aten_fallback)
    IN  IF ns = "onnx"
        THEN Invoke("g.op", [opname |-> op_name, positional |-> "*inputs",
                             attrs |-> SuffixedAttrs(n),
                             outputs |-> n.outputsSize], outcome)
        ELSE IF _should_aten_fallback(registry, ns, op_name, opset_version, oet)
        THEN Invoke("g.at", [opname |-> op_name, positional |-> "*inputs",
                             aten |-> TRUE, attrs |-> SuffixedAttrs(n),
                             outputs |-> n.outputsSize], outcome)
        ELSE IF is_registered_op(registry, op_name, domain, opset_version)
        THEN Invoke("symbolic_fn", [fn |-> symbolic_fn, attrs |-> RawAttrs(n)], outcome)
        ELSE Raised(UnsupportedOperatorError(domain, op_name, opset_version), None)

\* the try body with the ATen fallback tested before the onnx namespace
TryBodyFallbackBeforeClone(n, oet, opset_version, caffe2, registry, symbolic_fn, outcome) ==
    LET ns == SplitKind(StripInplace(KindPieces(n))).ns
        op_name == LookupKey(n, oet, opset_version, caffe2)[2]
        domain == LookupKey(n, oet, opset_version, caffe2)[1]
    IN  IF is_registered_op(registry, op_name, domain, opset_version)
        THEN Invoke("symbolic_fn",
                    [fn |-> symbolic_fn, positional |-> "g, *inputs",
                     attrs |-> RawAttrs(n)], outcome)
        ELSE IF _should_aten_fallback(registry, ns, op_name, opset_version, oet)
        THEN Invoke("g.at", [opname |-> op_name, positional |-> "*inputs",
                             aten |-> TRUE, attrs |-> SuffixedAttrs(n),
                             outputs |-> n.outputsSize], outcome)
        ELSE IF ns = "onnx"
        THEN Invoke("g.op", [opname |-> op_name, positional |-> "*inputs",
                             attrs |-> SuffixedAttrs(n),
                             outputs |-> n.outputsSize], outcome)
        ELSE Raised(UnsupportedOperatorError(domain, op_name, opset_version), None)

\* lines 1025-1078: the body of the try.  registry is the registry as lines
\* 1029-1036 leave it; symbolic_fn is the function it holds for the node and
\* outcome what the function or graph method that gets called does
TryBody(n, oet, opset_version, caffe2, registry, symbolic_fn, outcome) ==
    LET ns == SplitKind(StripInplace(KindPieces(n))).ns
        op_name == LookupKey(n, oet, opset_version, caffe2)[2]
        domain == LookupKey(n, oet, opset_version, caffe2)[1]
    IN  IF is_registered_op(registry, op_name, domain, opset_version)
        THEN LET found == _find_symbolic_in_registry(registry, domain, op_name,
                                                     opset_version, oet, symbolic_fn)
                 fn == found.value[1][1]
                 attrs == RawAttrs(n)
             IN  IF _need_symbolic_context(fn)
                 THEN Invoke("symbolic_fn",
                             [fn |-> fn, positional |-> "ctx, g, *inputs", attrs |-> attrs], outcome)
                 ELSE IF op_name = "PythonOp"
                 THEN Invoke("symbolic_fn",
                             [fn |-> fn, positional |-> "g, n, *inputs", attrs |-> attrs], outcome)
                 ELSE Invoke("symbolic_fn",
                             [fn |-> fn, positional |-> "g, *inputs", attrs |-> attrs], outcome)
        ELSE IF ns = "onnx"
        THEN Invoke("g.op", [opname |-> op_name, positional |-> "*inputs",
                             attrs |-> SuffixedAttrs(n),
                             outputs |-> n.outputsSize], outcome)
        ELSE IF _should_aten_fallback(registry, ns, op_name, opset_version, oet)
        THEN Invoke("g.at", [opname |-> op_name, positional |-> "*inputs",
                             aten |-> TRUE, attrs |-> SuffixedAttrs(n),
                             outputs |-> n.outputsSize], outcome)
        ELSE Raised(UnsupportedOperatorError(domain, op_name, opset_version), None)

\* line 1086: the message of a TypeError, with the operator name added
Augmented(message, op_name) == <<message, "Occurred when translating", op_name>>

\* the handlers returning None for a RuntimeError in every export type
ExceptHandlersSwallowingEverywhere(t, oet, op_name) ==
    IF t.exc = None
    THEN t
    ELSE LET e == t.exc[1]
         IN  IF IsRuntimeError(e)
             THEN Returned(None, t.called)
             ELSE IF e.type = "TypeError"
             THEN IF e.args = <<>>
                  THEN Raised(Exception("IndexError", <<"tuple index out of range">>),
                              t.called)
                  ELSE Raised(Exception("TypeError", <<Augmented(e.args[1], op_name)>>),
                              t.called)
             ELSE t

\* the handlers returning None in ONNX_FALLTHROUGH only for the
\* UnsupportedOperatorError of line 1078
ExceptHandlersSwallowingUnsupportedOnly(t, oet, op_name) ==
    IF t.exc = None
    THEN t
    ELSE LET e == t.exc[1]
         IN  IF IsRuntimeError(e)
             THEN IF oet = "ONNX_FALLTHROUGH" /\ e.type = "UnsupportedOperatorError"
                  THEN Returned(None, t.called)
                  ELSE t
             ELSE IF e.type = "TypeError"
             THEN IF e.args = <<>>
                  THEN Raised(Exception("IndexError", <<"tuple index out of range">>),
                              t.called)
                  ELSE Raised(Exception("TypeError", <<Augmented(e.args[1], op_name)>>),
                              t.called)
             ELSE t

\* lines 1079-1087: what the except clauses make of the try body's result t;
\* e.args[0] of an exception raised without arguments is an IndexError
ExceptHandlers(t, oet, op_name) ==
    IF t.exc = None
    THEN t
    ELSE LET e == t.exc[1]
         IN  IF IsRuntimeError(e)
             THEN IF oet = "ONNX_FALLTHROUGH"
                  THEN Returned(None, t.called)
                  ELSE t
             ELSE IF e.type = "TypeError"
             THEN IF e.args = <<>>
                  THEN Raised(Exception("IndexError", <<"tuple index out of range">>),
                              t.called)
                  ELSE Raised(Exception("TypeError", <<Augmented(e.args[1], op_name)>>),
                              t.called)
             ELSE t

\* lines 1021-1087
_run_symbolic_function(n, oet, opset_version, caffe2, registry, symbolic_fn, outcome) ==
    ExceptHandlers(TryBody(n, oet, opset_version, caffe2, registry, symbolic_fn, outcome),
                   oet, LookupKey(n, oet, opset_version, caffe2)[2])

\* Nodes, registries and callees the function is explored with
Namespaces == {"aten", "onnx", "quantized", "custom"}

OpNames == {"add", "PythonOp"}

NodeAttrs == {<<>>, <<Attribute("axes", <<"i", "s">>, 0)>>}

\* n.outputsSize()
NodeOutputs == {1, 2}

Nodes == {Node(ns, op, inplace, attrs, outputs) :
            ns \in Namespaces, op \in OpNames, inplace \in BOOLEAN,
            attrs \in NodeAttrs, outputs \in NodeOutputs}

\* n.kind()
Kind(n) == n.ns \o "::" \o n.op \o (IF n.inplace THEN "_" ELSE "")

RegistryDomains == {"", "onnx", "caffe2", "custom"}

\* the registries that differ in the domains holding op_name for the version
Registries(op_name, opset_version) ==
    {{<<d, op_name, opset_version>> : d \in D} : D \in SUBSET RegistryDomains}

SymbolicFns == {[params |-> 2, annotation |-> "SymbolicContext"],
                [params |-> 2, annotation |-> "empty"]}

Outcomes == {Returns,
             Exception("RuntimeError", <<"message">>),
             Exception("TypeError", <<"message">>),
             Exception("TypeError", <<>>)}

SymbolicOpsets == {default_onnx_opset_version, TrainingOpset}

\* line 1021, called for each node of the graph being converted
RunSymbolicFunction ==
    /\ rs.pc = "call"
    /\ LET r == _run_symbolic_function(rs.n, rs.operator_export_type,
                                       export_onnx_opset_version, CAFFE2_ATEN_FALLBACK,
                                       rs.registry, rs.symbolic_fn, rs.outcome)
       IN  rs' = [rs EXCEPT !.pc = "done", !.value = r.value, !.exc = r.exc,
                            !.called = r.called,
                            !.lookup = Some(LookupKey(rs.n, rs.operator_export_type,
                                                      export_onnx_opset_version,
                                                      CAFFE2_ATEN_FALLBACK))]
    /\ UNCHANGED <<globals, stack, calls, cfg, da, sn, uo, pipeline>>

InitSymbolic ==
    /\ IN_ONNX_EXPORT = TRUE
    /\ export_onnx_opset_version \in SymbolicOpsets
    /\ operator_export_type = "None"
    /\ onnx_shape_inference = FALSE
    /\ training_mode = None
    /\ trace_module_map = "None"
    /\ CAFFE2_ATEN_FALLBACK \in BOOLEAN
    /\ model_training = FALSE
    /\ stack = <<>>
    /\ calls = 0
    /\ IdlePipeline
    /\ cfg = IdleCfg
    /\ da = IdleDa
    /\ sn = IdleSn
    /\ uo = IdleUo
    /\ \E n \in Nodes, oet \in OperatorExportTypes, symbolic_fn \in SymbolicFns,
          outcome \in Outcomes :
        \E registry \in Registries(n.op, export_onnx_opset_version) :
            rs = [pc |-> "call",
                  n |-> n,
                  operator_export_type |-> oet,
                  registry |-> registry,
                  symbolic_fn |-> symbolic_fn,
                  outcome |-> outcome,
                  value |-> None,
                  exc |-> None,
                  called |-> None,
                  lookup |-> None]

NextSymbolic == RunSymbolicFunction

SpecSymbolic == InitSymbolic /\ [][NextSymbolic]_vars

---------------------------------------------------------------------------
(* unconvertible_ops, lines 591-625 *)

\* A node of a graph with the blocks it owns; a block is the sequence of the
\* nodes it owns.  graph.nodes() is the sequence of the nodes the graph owns
GraphNode(ns, op, blocks) == [ns |-> ns, op |-> op, blocks |-> blocks]

Leaf(ns, op) == GraphNode(ns, op, <<>>)

\* node.kind()
NodeKind(node) == node.ns \o "::" \o node.op

\* line 622: node.kind().split(":")[0]
NodeNamespace(node) == node.ns

\* The tracing collaborator (_create_jit_graph): the graph of the model in
\* the mode it is in; train_only says the model has an operator it runs in
\* training mode only
Trace(model, training) ==
    IF training /\ model.train_only
    THEN Append(model.graph, Leaf("aten", "dropout"))
    ELSE model.graph

\* What the conversion pass makes of a node for which _run_symbolic_function
\* ended as r: a node it returns None for is cloned unchanged, one it
\* returns a value for has become an onnx node
Converted(node, r) ==
    IF r.exc # None
    THEN [node |-> node, exc |-> r.exc[1].type]
    ELSE IF r.value = Some(None)
    THEN [node |-> node, exc |-> "none"]
    ELSE [node |-> [node EXCEPT !.ns = "onnx"], exc |-> "none"]

\* The conversion pass of _optimize_graph for one node without blocks, in
\* ONNX_FALLTHROUGH
ConvertLeaf(node, opset_version, caffe2, registry, outcome) ==
    Converted(node,
              _run_symbolic_function(Node(node.ns, node.op, FALSE, <<>>, 1),
                                     "ONNX_FALLTHROUGH", opset_version, caffe2, registry,
                                     [params |-> 2, annotation |-> "empty"], outcome))

\* the first exception among the results of converting some nodes
FirstException(results) ==
    IF \A i \in 1..Len(results) : results[i].exc = "none"
    THEN "none"
    ELSE results[CHOOSE i \in 1..Len(results) :
                    /\ results[i].exc # "none"
                    /\ \A j \in 1..(i - 1) : results[j].exc = "none"].exc

\* a block, its nodes converted
ConvertBlock(block, opset_version, caffe2, registry, outcome) ==
    [i \in 1..Len(block) |->
        ConvertLeaf(block[i], opset_version, caffe2, registry, outcome)]

\* a node put together from its own conversion and that of its blocks
WithBlocks(own, blocks) ==
    [node |-> [own.node EXCEPT
                 !.blocks = [k \in 1..Len(blocks) |->
                                [i \in 1..Len(blocks[k]) |-> blocks[k][i].node]]],
     exc |-> FirstException(<<own>> \o [k \in 1..Len(blocks) |->
                                          [exc |-> FirstException(blocks[k])]])]

\* the conversion of a node with its blocks, whose nodes go through the same
\* dispatch, the nesting preserved
ConvertNode(node, opset_version, caffe2, registry, outcome) ==
    WithBlocks(ConvertLeaf(node, opset_version, caffe2, registry, outcome),
               [k \in 1..Len(node.blocks) |->
                   ConvertBlock(node.blocks[k], opset_version, caffe2, registry, outcome)])

\* a graph put together from the conversions of its nodes
WithNodes(converted) ==
    [graph |-> [i \in 1..Len(converted) |-> converted[i].node],
     exc |-> FirstException(converted)]

\* _model_to_graph (line 614) as far as the scan depends on it: the traced
\* graph with every node converted
ConvertGraph(source, opset_version, caffe2, registry, outcome) ==
    WithNodes([i \in 1..Len(source) |->
                  ConvertNode(source[i], opset_version, caffe2, registry, outcome)])

ModelToGraph(model, training, opset_version, caffe2, registry, outcome) ==
    ConvertGraph(Trace(model, training), opset_version, caffe2, registry, outcome)

supported_namespaces == {"onnx", "prim"}

\* lines 618-623: the loop over graph.nodes()
RECURSIVE ScanNodes(_, _, _)
ScanNodes(nodes, i, unsupported_ops) ==
    IF i > Len(nodes)
    THEN unsupported_ops
    ELSE ScanNodes(nodes, i + 1,
                   IF NodeNamespace(nodes[i]) \notin supported_namespaces
                   THEN Append(unsupported_ops, NodeKind(nodes[i]))
                   ELSE unsupported_ops)

\* What a call of unconvertible_ops leaves: the globals, the returned graph
\* and list (None when it raised) and the exception
Scanned(g, graph, unsupported_ops, exc) ==
    [g |-> g, graph |-> graph, unsupported_ops |-> unsupported_ops, exc |-> exc]

\* lines 618-624, after the with statement was left with the globals g and
\* the conversion ended as m
ScanAndReturn(g, m) ==
    IF m.exc # "none"
    THEN Scanned(g, None, None, m.exc)
    ELSE Scanned(g, Some(m.graph), Some(ScanNodes(m.graph, 1, <<>>)), "none")

\* lines 613-624 converting with the opset version the process was left
\* with (g0), as if line 609 took effect after the conversion
ConvertAndScanWithStaleOpset(g0, b, model, caffe2, registry, outcome) ==
    IF b.exc # "none"
    THEN Scanned(b.g, None, None, b.exc)
    ELSE ScanAndReturn(ExitContext(b.g, "Module", b.is_originally_training),
                       ModelToGraph(model, b.g.model_training,
                                    g0.export_onnx_opset_version, caffe2, registry,
                                    outcome))

\* lines 613-624, entered with the outcome b of lines 608-613: the model is
\* converted inside exporter_context, the context is left, the graph scanned
ConvertAndScan(g0, b, model, caffe2, registry, outcome) ==
    IF b.exc # "none"
    THEN Scanned(b.g, None, None, b.exc)
    ELSE ScanAndReturn(ExitContext(b.g, "Module", b.is_originally_training),
                       ModelToGraph(model, b.g.model_training,
                                    b.g.export_onnx_opset_version, caffe2, registry,
                                    outcome))

\* lines 591-625; g are the globals at the call
unconvertible_ops(g, model, training, opset_arg, caffe2, registry, outcome) ==
    ConvertAndScan(g, UnconvertibleBegin(g, "Module", opset_arg, training),
                   model, caffe2, registry, outcome)

\* Models, registries and arguments the scan is explored with
ScanLeaves == {Leaf(ns, "add") : ns \in {"aten", "onnx", "custom"}}

ScanBlockNodes == {GraphNode("prim", "If", <<<<Leaf(ns, "add")>>>>) : ns \in {"aten", "onnx"}}

ScanGraphs == UNION {[1..n -> ScanLeaves \cup ScanBlockNodes] : n \in 0..MaxNodes}

ScanModels == {[graph |-> graph, train_only |-> t] : graph \in ScanGraphs, t \in BOOLEAN}

ScanRegistries == SUBSET {<<"", "add", default_onnx_opset_version>>,
                          <<"", "add", TrainingOpset>>}

ScanOutcomes == {Returns, Exception("RuntimeError", <<"message">>)}

\* one call of unconvertible_ops; the second call is made with the
\* arguments of the first
UnconvertibleOps ==
    /\ uo.pc \in {"first", "second"}
    /\ LET r == unconvertible_ops(Globals, uo.model, uo.training, uo.opset_version,
                                  CAFFE2_ATEN_FALLBACK, uo.registry, uo.outcome)
       IN  /\ SetGlobals(r.g)
           /\ uo' = [uo EXCEPT
                       !.pc = IF uo.pc = "first" THEN "second" ELSE "done",
                       !.results = Append(@, [graph |-> r.graph,
                                              unsupported_ops |-> r.unsupported_ops,
                                              exc |-> r.exc])]
    /\ UNCHANGED <<stack, calls, cfg, da, sn, rs, pipeline>>

\* the process may have been left with any opset version by an earlier
\* export
InitScan ==
    /\ IN_ONNX_EXPORT = FALSE
    /\ export_onnx_opset_version \in SymbolicOpsets
    /\ operator_export_type = "None"
    /\ onnx_shape_inference = FALSE
    /\ training_mode = None
    /\ trace_module_map = "None"
    /\ CAFFE2_ATEN_FALLBACK = FALSE
    /\ model_training \in BOOLEAN
    /\ stack = <<>>
    /\ calls = 0
    /\ IdlePipeline
    /\ cfg = IdleCfg
    /\ da = IdleDa
    /\ sn = IdleSn
    /\ rs = IdleRs
    /\ \E model \in ScanModels, training \in TrainingModes, opset_version \in OpsetArgs,
          registry \in ScanRegistries, outcome \in ScanOutcomes :
        uo = [pc |-> "first",
              model |-> model,
              training |-> training,
              opset_version |-> opset_version,
              registry |-> registry,
              outcome |-> outcome,
              results |-> <<>>]

NextScan == UnconvertibleOps

SpecScan == InitScan /\ [][NextScan]_vars

---------------------------------------------------------------------------
(* _model_to_graph, lines 474-557 *)

\* A graph with its nodes: the fields of Graph, and nodes, the sequence of
\* the top-level nodes with the values each reads and the value it produces
GraphWithNodes(names, inputs, outputs, nodes) ==
    [names |-> names, inputs |-> inputs, outputs |-> outputs,
     identities |-> <<>>, nodes |-> nodes]

ValueNode(ns, op, inputs, output) ==
    [ns |-> ns, op |-> op, inputs |-> inputs, output |-> output]

\* graph.nodes(): the nodes of the graph and the onnx::Identity nodes
\* _set_input_and_output_names created
GraphNodes(graph) ==
    graph.nodes \o
    [i \in 1..Len(graph.identities) |->
        ValueNode("onnx", "Identity", <<graph.identities[i].input>>,
                  graph.identities[i].output)]

\* dict(zip(keys, values)): a later pair replaces an earlier one of the same
\* key
Dict(keys, values) ==
    LET n == IF Len(keys) < Len(values) THEN Len(keys) ELSE Len(values)
    IN  [k \in {keys[i] : i \in 1..n} |->
            values[CHOOSE i \in 1..n :
                       keys[i] = k /\ \A j \in (i + 1)..n : keys[j] # k]]

\* lines 451-455: the names of the last len(params) graph inputs, zipped
\* with params; the name _params_dict assigned in line 454 is a local of the
\* function
_get_named_param_dict(graph, params) ==
    LET input_and_param_names ==
            [i \in 1..Len(graph.inputs) |-> graph.names[graph.inputs[i]]]
        param_names ==
            SubSeq(input_and_param_names,
                   Len(input_and_param_names) - Len(params) + 1,
                   Len(input_and_param_names))
    IN  Dict(param_names, params)

\* torch.onnx.SymbolicContext(params_dict, env, cur_node, onnx_block)
SymbolicContext(params_dict, env, cur_node, onnx_block) ==
    [params_dict |-> params_dict, env |-> env, cur_node |-> cur_node,
     onnx_block |-> onnx_block]

\* lines 1058-1059: the context built for a call r of a registered function
\* that declares it; _params_dict there is the module global of line 35
ContextOf(r, module_params_dict, n) ==
    IF r.called # None /\ r.called[1].callee = "symbolic_fn"
       /\ r.called[1].args.positional = "ctx, g, *inputs"
    THEN Some(SymbolicContext(module_params_dict, "env", n, "block"))
    ELSE None

\* torch._C._jit_pass_onnx: every node gets the kind its translation gives
\* it, in the onnx namespace
Translated(graph) ==
    [graph EXCEPT !.nodes = [i \in 1..Len(graph.nodes) |->
                                [graph.nodes[i] EXCEPT !.ns = "onnx"]]]

\* the values read by a node or returned by the graph
UsedValues(graph) ==
    {graph.outputs[i] : i \in 1..Len(graph.outputs)} \cup
    UNION {{GraphNodes(graph)[k].inputs[i] :
                i \in 1..Len(GraphNodes(graph)[k].inputs)} :
           k \in 1..Len(GraphNodes(graph))}

\* torch._C._jit_pass_onnx_eliminate_unused_items: graph inputs nothing
\* reads are erased, and their entries leave the params dict
EliminateUnusedItems(graph, params_dict) ==
    LET kept == SelectSeq(graph.inputs, LAMBDA v : v \in UsedValues(graph))
    IN  [graph |-> [graph EXCEPT !.inputs = kept],
         params |-> [k \in DOMAIN params_dict \cap
                            {graph.names[kept[i]] : i \in 1..Len(kept)} |->
                        params_dict[k]]]

\* n.kind() of a node of the graph
KindOfNode(n) == n.ns \o "::" \o n.op

\* graph.nodes() x n.inputs() in the order lines 790-791 visit them
RECURSIVE NodeInputPairs(_, _)
NodeInputPairs(nodes, k) ==
    IF k > Len(nodes)
    THEN <<>>
    ELSE [i \in 1..Len(nodes[k].inputs) |-> [n |-> nodes[k], v |-> nodes[k].inputs[i]]]
         \o NodeInputPairs(nodes, k + 1)

\* lines 797-798: params[new_name] = params.pop(old_name)
MoveKey(params, old_name, new_name) ==
    [k \in (DOMAIN params \ {old_name}) \cup {new_name} |->
        IF k = new_name THEN params[old_name] ELSE params[k]]

\* renaming that leaves the dict as it is
RECURSIVE ApplyFriendlyNames(_, _, _, _)
ApplyFriendlyNamesKeepingKeys(graph, params, pairs, i) ==
    IF i > Len(pairs)
    THEN [graph |-> graph, params |-> params]
    ELSE IF graph.names[pairs[i].v] # DefaultDebugName(pairs[i].v)
    THEN ApplyFriendlyNames(graph, params, pairs, i + 1)
    ELSE ApplyFriendlyNames(
             SetDebugName(graph, pairs[i].v,
                          KindOfNode(pairs[i].n) \o "_" \o ToString(pairs[i].v)),
             params, pairs, i + 1)

\* lines 790-798, from the i-th (node, input) pair on
ApplyFriendlyNames(graph, params, pairs, i) ==
    IF i > Len(pairs)
    THEN [graph |-> graph, params |-> params]
    ELSE IF graph.names[pairs[i].v] # DefaultDebugName(pairs[i].v)
    THEN ApplyFriendlyNames(graph, params, pairs, i + 1)
    ELSE ApplyFriendlyNames(
             SetDebugName(graph, pairs[i].v,
                          KindOfNode(pairs[i].n) \o "_" \o ToString(pairs[i].v)),
             IF graph.names[pairs[i].v] \in DOMAIN params
             THEN MoveKey(params, graph.names[pairs[i].v],
                          KindOfNode(pairs[i].n) \o "_" \o ToString(pairs[i].v))
             ELSE params,
             pairs, i + 1)

\* lines 789-798
_apply_friendly_debug_names(graph, params) ==
    ApplyFriendlyNames(graph, params, NodeInputPairs(GraphNodes(graph), 1), 1)

\* The exports _model_to_graph is explored with: a graph of two inputs (the
\* model's parameters are its last inputs) and two nodes, whose values carry
\* the name the tracer gave them or none; a model with no, one or two
\* parameters
ModelParams == {<<>>, <<"T2">>, <<"T1", "T2">>}

TracedNames == {<<n1, n2, DefaultDebugName(3), DefaultDebugName(4)>> :
                    n1 \in {"x", DefaultDebugName(1)},
                    n2 \in {"w", DefaultDebugName(2)}}

TracedNodes == {<<ValueNode("aten", "add", <<1, 2>>, 3),
                  ValueNode("aten", "relu", <<3>>, 4)>>,
                <<ValueNode("aten", "relu", <<1>>, 3),
                  ValueNode("aten", "relu", <<3>>, 4)>>}

TracedOutputs == {<<4>>, <<4, 4>>, <<3, 4>>}

ModelInputNames == {None, Some(<<"a">>), Some(<<"a", "b">>), Some(<<"a", "b", "c">>)}

ModelOutputNames == {None, Some(<<"out">>), Some(<<"w", "out">>)}

\* lines 496-498: _create_jit_graph, then the params dict is built
CreateGraphAndParamsDict ==
    /\ mg.pc = "call"
    /\ mg' = [mg EXCEPT !.pc = "built",
                        !.params_dict = _get_named_param_dict(mg.graph, mg.params)]
    /\ UNCHANGED <<globals, stack, calls, cfg, da, sn, rs, uo, og, ex, st, cr, th>>

\* lines 500-504: _optimize_graph; its translation pass calls
\* _run_symbolic_function for each node, here with a registered function
OptimizeTracedGraph ==
    /\ mg.pc = "built"
    /\ LET n == Node(mg.graph.nodes[1].ns, mg.graph.nodes[1].op, FALSE, <<>>, 1)
           r == _run_symbolic_function(
                    n, "ONNX", export_onnx_opset_version, CAFFE2_ATEN_FALLBACK,
                    {<<"", n.op, export_onnx_opset_version>>}, mg.symbolic_fn, Returns)
       IN  mg' = [mg EXCEPT !.pc = "optimized",
                            !.graph = Translated(mg.graph),
                            !.ctx = ContextOf(r, mg.module_params_dict, n)]
    /\ UNCHANGED <<globals, stack, calls, cfg, da, sn, rs, uo, og, ex, st, cr, th>>

\* lines 526-527: the inputs and outputs are renamed and the params dict is
\* built again from the new names
NameInputsAndOutputs ==
    /\ mg.pc = "optimized"
    /\ LET r == _set_input_and_output_names(mg.graph, mg.input_names, mg.output_names)
       IN  IF r.exc # "none"
           THEN mg' = [mg EXCEPT !.pc = "raised", !.exc = r.exc]
           ELSE mg' = [mg EXCEPT !.pc = "named",
                                 !.graph = r.graph,
                                 !.params_dict = _get_named_param_dict(r.graph, mg.params)]
    /\ UNCHANGED <<globals, stack, calls, cfg, da, sn, rs, uo, og, ex, st, cr, th>>

\* lines 529-551: the passes that hand back a params dict; of these the
\* model keeps the elimination of unused items
PostProcessGraph ==
    /\ mg.pc = "named"
    /\ LET r == EliminateUnusedItems(mg.graph, mg.params_dict)
       IN  mg' = [mg EXCEPT !.pc = "pruned", !.graph = r.graph,
                            !.params_dict = r.params]
    /\ UNCHANGED <<globals, stack, calls, cfg, da, sn, rs, uo, og, ex, st, cr, th>>

\* lines 555-557: friendly names, then graph and params dict are returned
FriendlyNamesAndReturn ==
    /\ mg.pc = "pruned"
    /\ LET r == _apply_friendly_debug_names(mg.graph, mg.params_dict)
       IN  mg' = [mg EXCEPT !.pc = "done", !.graph = r.graph,
                            !.params_dict = r.params,
                            !.returned = Some([graph |-> r.graph,
                                               params_dict |-> r.params])]
    /\ UNCHANGED <<globals, stack, calls, cfg, da, sn, rs, uo, og, ex, st, cr, th>>

InitModelToGraph ==
    /\ InitGlobals
    /\ CAFFE2_ATEN_FALLBACK = FALSE
    /\ stack = <<>>
    /\ calls = 0
    /\ cfg = IdleCfg
    /\ da = IdleDa
    /\ sn = IdleSn
    /\ rs = IdleRs
    /\ uo = IdleUo
    /\ cr = IdleCr
    /\ th = IdleTh
    /\ og = IdleOg
    /\ ex = IdleEx
    /\ st = IdleSt
    /\ \E params \in ModelParams, names \in TracedNames, nodes \in TracedNodes,
          outputs \in TracedOutputs, input_names \in ModelInputNames,
          output_names \in ModelOutputNames, symbolic_fn \in SymbolicFns :
        mg = [pc |-> "call",
              params |-> params,
              graph |-> GraphWithNodes(names, <<1, 2>>, outputs, nodes),
              params_dict |-> None,
              module_params_dict |-> Dict(<<>>, <<>>),
              input_names |-> input_names,
              output_names |-> output_names,
              symbolic_fn |-> symbolic_fn,
              ctx |-> None,
              exc |-> "none",
              returned |-> None]

NextModelToGraph ==
    \/ CreateGraphAndParamsDict
    \/ OptimizeTracedGraph
    \/ NameInputsAndOutputs
    \/ PostProcessGraph
    \/ FriendlyNamesAndReturn

SpecModelToGraph == InitModelToGraph /\ [][NextModelToGraph]_vars

---------------------------------------------------------------------------
(* _split_tensor_list_constants, lines 120-150 *)

\* A node of a block: its kind, the type and (for a constant) the IValue of
\* its output, the values it reads, the value it produces and the blocks it
\* owns; a block is the sequence of its nodes.  An IValue is the sequence of
\* the tensors it holds: one for a tensor, one per element for a list
BlockNode(kind, type, value, inputs, output, blocks) ==
    [kind |-> kind, type |-> type, value |-> value, inputs |-> inputs,
     output |-> output, blocks |-> blocks]

\* lines 120-127: a prim::Constant whose output type is a subtype of
\* List[Tensor] or of List[Optional[Tensor]]; None (false) otherwise
_is_constant_tensor_list(node) ==
    /\ node.kind = "prim::Constant"
    /\ node.type \in {"List[Tensor]", "List[Optional[Tensor]]"}

\* lines 138-143: g.insertConstant(val) for each element of the list, the
\* new values numbered from next on; the constant of a None element is of
\* type NoneType
ElementConstants(node, next) ==
    [j \in 1..Len(node.value) |->
        BlockNode("prim::Constant",
                  IF node.value[j] = "None" THEN "NoneType" ELSE "Tensor",
                  <<node.value[j]>>, <<>>, next + j - 1, <<>>)]

\* lines 145-149: the prim::ListConstruct of the new constants
ListConstruct(node, next) ==
    BlockNode("prim::ListConstruct", "List[Tensor]", <<>>,
              [j \in 1..Len(node.value) |-> next + j - 1],
              next + Len(node.value), <<>>)

\* What the traversal of some nodes (or blocks) leaves: the nodes (or
\* blocks) now in their place, the next unused value number and the pairs
\* (old value, new value) of replaceAllUsesWith
Traversed(nodes, next, replaced) ==
    [nodes |-> nodes, next |-> next, replaced |-> replaced]

\* lines 137-150 for one node whose blocks have been traversed: the new
\* nodes are inserted before it and the node itself stays where it is
SplitNode(node, next) ==
    IF _is_constant_tensor_list(node)
    THEN Traversed(ElementConstants(node, next) \o <<ListConstruct(node, next)>>
                       \o <<node>>,
                   next + Len(node.value) + 1,
                   {<<node.output, next + Len(node.value)>>})
    ELSE Traversed(<<node>>, next, {})

RECURSIVE SplitBlock(_, _, _)
RECURSIVE SplitSubblocks(_, _, _)

\* a traversed block followed by the traversal of the blocks after it
BlockThenBlocks(first, rest) ==
    Traversed(<<first.nodes>> \o rest.nodes, rest.next,
              first.replaced \cup rest.replaced)

BlocksAfter(first, blocks, k) ==
    BlockThenBlocks(first, SplitSubblocks(blocks, k, first.next))

\* lines 135-136: the blocks of a node, from the k-th on
SplitSubblocks(blocks, k, next) ==
    IF k > Len(blocks)
    THEN Traversed(<<>>, next, {})
    ELSE BlocksAfter(SplitBlock(blocks[k], 1, next), blocks, k + 1)

\* a traversed node, after its blocks, followed by the rest of its block
NodeThenNodes(sub, own, rest) ==
    Traversed(own.nodes \o rest.nodes, rest.next,
              sub.replaced \cup own.replaced \cup rest.replaced)

NodesAfter(sub, own, nodes, i) ==
    NodeThenNodes(sub, own, SplitBlock(nodes, i, own.next))

NodeAfterBlocks(sub, nodes, i) ==
    NodesAfter(sub, SplitNode([nodes[i] EXCEPT !.blocks = sub.nodes], sub.next),
               nodes, i + 1)

\* the traversal without the recursion into the blocks of a node
SplitBlockAtTopLevelOnly(nodes, i, next) ==
    IF i > Len(nodes)
    THEN Traversed(<<>>, next, {})
    ELSE NodesAfter(Traversed(<<>>, next, {}), SplitNode(nodes[i], next), nodes, i + 1)

\* lines 134-150: the nodes of a block, from the i-th on
SplitBlock(nodes, i, next) ==
    IF i > Len(nodes)
    THEN Traversed(<<>>, next, {})
    ELSE NodeAfterBlocks(SplitSubblocks(nodes[i].blocks, 1, next), nodes, i)

\* Value.replaceAllUsesWith: what a use of v reads afterwards
Redirected(v, replaced) ==
    IF \E p \in replaced : p[1] = v
    THEN (CHOOSE p \in replaced : p[1] = v)[2]
    ELSE v

RECURSIVE RedirectUses(_, _)
RedirectUses(nodes, replaced) ==
    [i \in 1..Len(nodes) |->
        [nodes[i] EXCEPT
            !.inputs = [j \in 1..Len(nodes[i].inputs) |->
                           Redirected(nodes[i].inputs[j], replaced)],
            !.blocks = [k \in 1..Len(nodes[i].blocks) |->
                           RedirectUses(nodes[i].blocks[k], replaced)]]]

\* what the traversal t makes of graph g
SplitGraph(g, t) ==
    [nodes |-> RedirectUses(t.nodes, t.replaced),
     outputs |-> [i \in 1..Len(g.outputs) |-> Redirected(g.outputs[i], t.replaced)],
     next |-> t.next]

\* lines 133-150, called with the graph as the block
_split_tensor_list_constants(g, block) == SplitGraph(g, SplitBlock(block, 1, g.next))

\* The graphs the function is explored with: a constant (value 1), a node
\* that may read it (value 2), possibly a prim::If whose block holds a
\* second list constant (value 3) and a reader (value 4)
Tensors(n) == [j \in 1..n |-> "t" \o ToString(j)]

ConstantValues ==
    {[type |-> "List[Tensor]", value |-> Tensors(n)] : n \in 0..MaxElements}
    \cup {[type |-> "List[Optional[Tensor]]", value |-> <<"None">> \o Tensors(n)] :
              n \in 0..(MaxElements - 1)}
    \cup {[type |-> "Tensor", value |-> Tensors(1)]}

InnerBlocks ==
    {<<BlockNode("aten::cat", "Tensor", <<>>, <<1>>, 4, <<>>)>>,
     <<BlockNode("prim::Constant", "List[Tensor]", Tensors(MaxElements), <<>>, 3, <<>>),
       BlockNode("aten::cat", "Tensor", <<>>, <<3>>, 4, <<>>)>>,
     <<BlockNode("prim::Constant", "List[Tensor]", Tensors(MaxElements), <<>>, 3, <<>>),
       BlockNode("aten::stack", "Tensor", <<>>, <<1, 3>>, 4, <<>>)>>}

Readers ==
    {BlockNode("aten::cat", "Tensor", <<>>, <<1>>, 2, <<>>)}
    \cup {BlockNode("prim::If", "Tensor", <<>>, <<>>, 2, <<b>>) : b \in InnerBlocks}

SplitOutputs == {<<2>>, <<1>>, <<1, 2>>}

SplitGraphs ==
    {[nodes |-> <<BlockNode("prim::Constant", c.type, c.value, <<>>, 1, <<>>), r>>,
      outputs |-> o,
      next |-> 5] : c \in ConstantValues, r \in Readers, o \in SplitOutputs}

\* line 170 (_optimize_graph)
SplitTensorListConstants ==
    /\ st.pc = "call"
    /\ st' = [st EXCEPT !.pc = "done",
                        !.graph = _split_tensor_list_constants(st.graph0, st.graph0.nodes)]
    /\ UNCHANGED <<globals, stack, calls, cfg, da, sn, rs, uo, mg, og, ex, cr, th>>

InitSplit ==
    /\ InitGlobals
    /\ model_training = FALSE
    /\ CAFFE2_ATEN_FALLBACK = FALSE
    /\ stack = <<>>
    /\ calls = 0
    /\ cfg = IdleCfg
    /\ da = IdleDa
    /\ sn = IdleSn
    /\ rs = IdleRs
    /\ uo = IdleUo
    /\ cr = IdleCr
    /\ th = IdleTh
    /\ mg = IdleMg
    /\ og = IdleOg
    /\ ex = IdleEx
    /\ \E g \in SplitGraphs : st = [pc |-> "call", graph0 |-> g, graph |-> g]

NextSplit == SplitTensorListConstants

SpecSplit == InitSplit /\ [][NextSplit]_vars

---------------------------------------------------------------------------
(* _optimize_graph, lines 153-251 *)

\* Each call of a pass is named by the torch._C function it calls, without
\* the prefix _jit_pass_

\* lines 156-220: the passes before number types are erased;
\* constant propagation runs only if the argument is the object False
PassesBeforeErasure(_disable_torch_constant_prop, is_caffe2_aten_fallback) ==
    <<"inline", "inline_fork_wait", "lint", "lower_all_tuples">>
    \o (IF _disable_torch_constant_prop = "False"
        THEN <<"constant_propagation">> ELSE <<>>)
    \o <<"_split_tensor_list_constants", "dce", "lint",
         "canonicalize_graph_fuser_ops", "lint", "peephole", "fuse_addmm", "lint",
         "peephole", "lower_all_tuples", "onnx_remove_inplace_ops_for_onnx",
         "onnx_preprocess", "lint", "prepare_division_for_onnx",
         "onnx_remove_print", "onnx_preprocess_caffe2">>
    \o (IF is_caffe2_aten_fallback
        THEN <<"onnx_unpack_quantized_weights", "onnx_quantization_insert_permutes",
               "custom_pattern_based_rewrite_graph">>
        ELSE <<>>)

\* lines 225-228
DynamicInputShapePasses(shape_inference) ==
    IF shape_inference THEN <<"onnx_set_dynamic_input_shape">> ELSE <<>>

\* lines 231-250: the passes after the translation
PassesAfterTranslation(shape_inference) ==
    <<"onnx_lint", "lint", "onnx_scalar_type_analysis", "lint", "onnx_peephole",
      "lint", "dce_allow_deleting_nodes_with_side_effects", "lint",
      "canonicalize", "lint">>
    \o (IF shape_inference THEN <<"onnx_graph_shape_type_inference">> ELSE <<>>)

\* a pipeline that translates before it erases the number types
PassesTranslatingBeforeErasure(_disable_torch_constant_prop, oet, caffe2, shape_inference) ==
    PassesBeforeErasure(_disable_torch_constant_prop,
                        oet = "ONNX_ATEN_FALLBACK" /\ caffe2)
    \o DynamicInputShapePasses(shape_inference)
    \o <<"onnx_lint", "onnx", "erase_number_types">>
    \o PassesAfterTranslation(shape_inference)

\* lines 156-250: the passes _optimize_graph runs, in order
OptimizeGraphPasses(_disable_torch_constant_prop, oet, caffe2, shape_inference) ==
    PassesBeforeErasure(_disable_torch_constant_prop,
                        oet = "ONNX_ATEN_FALLBACK" /\ caffe2)
    \o <<"erase_number_types">>
    \o DynamicInputShapePasses(shape_inference)
    \o <<"onnx_lint", "onnx">>
    \o PassesAfterTranslation(shape_inference)

\* the _disable_torch_constant_prop arguments: the default, True and a falsy
\* object that is not False
DisableConstantPropArgs == {"False", "True", "None"}

\* the next pass of the function runs; after the last one it returns
RunPass ==
    /\ og.pc = "running"
    /\ LET passes == OptimizeGraphPasses(og._disable_torch_constant_prop,
                                         og.operator_export_type,
                                         CAFFE2_ATEN_FALLBACK, onnx_shape_inference)
       IN  og' = [og EXCEPT !.log = Append(@, passes[Len(og.log) + 1]),
                            !.pc = IF Len(og.log) + 1 = Len(passes)
                                   THEN "done" ELSE "running"]
    /\ UNCHANGED <<globals, stack, calls, cfg, da, sn, rs, uo, mg, ex, st, cr, th>>

InitOptimize ==
    /\ IN_ONNX_EXPORT = TRUE
    /\ export_onnx_opset_version = default_onnx_opset_version
    /\ operator_export_type = "None"
    /\ onnx_shape_inference \in BOOLEAN
    /\ training_mode = None
    /\ trace_module_map = "None"
    /\ CAFFE2_ATEN_FALLBACK \in BOOLEAN
    /\ model_training = FALSE
    /\ stack = <<>>
    /\ calls = 0
    /\ cfg = IdleCfg
    /\ da = IdleDa
    /\ sn = IdleSn
    /\ rs = IdleRs
    /\ uo = IdleUo
    /\ cr = IdleCr
    /\ th = IdleTh
    /\ mg = IdleMg
    /\ ex = IdleEx
    /\ st = IdleSt
    /\ \E dtcp \in DisableConstantPropArgs, oet \in OperatorExportTypes :
        og = [pc |-> "running",
              _disable_torch_constant_prop |-> dtcp,
              operator_export_type |-> oet,
              log |-> <<>>]

NextOptimize == RunPass

SpecOptimize == InitOptimize /\ [][NextOptimize]_vars

---------------------------------------------------------------------------
(* The body of _export, lines 679-781 *)

\* the members of torch.onnx.ExportTypes the body tests for, lines 741-753
ExportTypes == {"PROTOBUF_FILE", "ZIP_ARCHIVE", "COMPRESSED_ZIP_ARCHIVE", "DIRECTORY"}

\* the export_type arguments: a member of ExportTypes or any other object
ExportTypeValues == ExportTypes \cup {"TAR_ARCHIVE"}

\* the operator_export_type arguments
OperatorExportTypeArgs == OperatorExportTypes \cup {"None"}

\* the names of the parameters of the exported model
ExportedParams == {{}, {"weight"}}

\* what _check_onnx_proto does with the proto: it returns, raises the
\* RuntimeError of an invalid model, or fails in another way
CheckerOutcomes == {"none", "RuntimeError", "MemoryError"}

\* the name of the model inside an archive or a directory
ONNX_ARCHIVE_MODEL_PROTO_NAME == "__MODEL_PROTO"

\* line 719
DeferWeightExport(export_type) == export_type # "PROTOBUF_FILE"

\* lines 731-740: the export_map returned by graph._export_onnx holds the
\* initializers whose export was deferred
ExportMap(export_params, export_type, params) ==
    IF export_params /\ DeferWeightExport(export_type) THEN params ELSE {}

\* a write of the archive or directory that leaves the weights out
WrittenWithoutWeights(export_type, export_map) ==
    IF export_type = "PROTOBUF_FILE" THEN Some({"proto"})
    ELSE IF export_type \in {"ZIP_ARCHIVE", "COMPRESSED_ZIP_ARCHIVE", "DIRECTORY"}
         THEN Some({ONNX_ARCHIVE_MODEL_PROTO_NAME})
    ELSE None

\* lines 741-768: the entries written to f, None for an export_type that no
\* branch handles
Written(export_type, export_map) ==
    IF export_type = "PROTOBUF_FILE" THEN Some({"proto"})
    ELSE IF export_type \in {"ZIP_ARCHIVE", "COMPRESSED_ZIP_ARCHIVE"}
         THEN Some({ONNX_ARCHIVE_MODEL_PROTO_NAME} \cup export_map)
    ELSE IF export_type = "DIRECTORY"
         THEN Some({ONNX_ARCHIVE_MODEL_PROTO_NAME} \cup export_map)
    ELSE None

\* a checker applied to every output that is held in memory
CheckerAppliesToInMemoryOutput(oet, val_use_external_data_format) ==
    ~val_use_external_data_format

\* line 777
CheckerApplies(oet, val_use_external_data_format) ==
    oet = "ONNX" /\ ~val_use_external_data_format

\* lines 778-781: the exception that leaves the try statement
CheckerRaises(outcome) ==
    IF outcome = "RuntimeError" THEN "CheckerError" ELSE outcome

\* lines 679-683
ExportDefaults ==
    /\ ex.pc = "call"
    /\ ex' = [ex EXCEPT !.pc = "context",
                        !.operator_export_type =
                            ResolveExportType(ex.operator_export_type)]
    /\ UNCHANGED <<globals, stack, calls, cfg, da, sn, rs, uo, mg, og, st, cr, th>>

\* lines 705-716: the model is traced and converted; the trace runs the
\* model and may raise
ExportModelToGraph ==
    /\ ex.pc = "context"
    /\ \E exc \in {"none", "TracingError"} :
        ex' = [ex EXCEPT !.pc = IF exc = "none" THEN "graph" ELSE "raised",
                         !.log = Append(ex.log, "_model_to_graph"),
                         !.exc = exc]
    /\ UNCHANGED <<globals, stack, calls, cfg, da, sn, rs, uo, mg, og, st, cr, th>>

\* lines 719-740: the graph is serialized; the serializer decides whether
\* the proto refers to external data
ExportOnnx ==
    /\ ex.pc = "graph"
    /\ \E val_use_external_data_format \in BOOLEAN :
        ex' = [ex EXCEPT
                 !.pc = "serialized",
                 !.log = Append(ex.log, "_export_onnx"),
                 !.export_map = ExportMap(ex.export_params, ex.export_type, ex.params),
                 !.val_use_external_data_format = val_use_external_data_format]
    /\ UNCHANGED <<globals, stack, calls, cfg, da, sn, rs, uo, mg, og, st, cr, th>>

\* lines 741-770
ExportWrite ==
    /\ ex.pc = "serialized"
    /\ ex' = IF Written(ex.export_type, ex.export_map) = None
             THEN [ex EXCEPT !.pc = "raised",
                             !.exc = "RuntimeError",
                             !.message = "Unknown export type"]
             ELSE [ex EXCEPT !.pc = "written",
                             !.log = Append(ex.log, "write"),
                             !.written = Written(ex.export_type, ex.export_map)[1]]
    /\ UNCHANGED <<globals, stack, calls, cfg, da, sn, rs, uo, mg, og, st, cr, th>>

\* lines 741-768: opening f or one of the writes raises, after some of the
\* entries have been written
ExportWriteInterrupted ==
    /\ ex.pc = "serialized"
    /\ Written(ex.export_type, ex.export_map) # None
    /\ \E w \in SUBSET Written(ex.export_type, ex.export_map)[1] :
        /\ w # Written(ex.export_type, ex.export_map)[1]
        /\ ex' = [ex EXCEPT !.pc = "raised",
                            !.exc = "OSError",
                            !.log = Append(ex.log, "write interrupted"),
                            !.written = w]
    /\ UNCHANGED <<globals, stack, calls, cfg, da, sn, rs, uo, mg, og, st, cr, th>>

\* lines 777-781
ExportCheck ==
    /\ ex.pc = "written"
    /\ IF CheckerApplies(ex.operator_export_type, ex.val_use_external_data_format)
       THEN \E outcome \in CheckerOutcomes :
              ex' = [ex EXCEPT !.pc = IF outcome = "none" THEN "done" ELSE "raised",
                               !.log = Append(ex.log, "_check_onnx_proto"),
                               !.checker = outcome,
                               !.exc = CheckerRaises(outcome)]
       ELSE ex' = [ex EXCEPT !.pc = "done"]
    /\ UNCHANGED <<globals, stack, calls, cfg, da, sn, rs, uo, mg, og, st, cr, th>>

InitExport ==
    /\ InitGlobals
    /\ model_training = FALSE
    /\ CAFFE2_ATEN_FALLBACK \in BOOLEAN
    /\ stack = <<>>
    /\ calls = 0
    /\ cfg = IdleCfg
    /\ da = IdleDa
    /\ sn = IdleSn
    /\ rs = IdleRs
    /\ uo = IdleUo
    /\ cr = IdleCr
    /\ th = IdleTh
    /\ mg = IdleMg
    /\ og = IdleOg
    /\ st = IdleSt
    /\ \E oet \in OperatorExportTypeArgs, export_type \in ExportTypeValues,
          export_params \in BOOLEAN, params \in ExportedParams :
        ex = [pc |-> "call",
              operator_export_type |-> oet,
              export_type |-> export_type,
              export_params |-> export_params,
              params |-> params,
              export_map |-> {},
              val_use_external_data_format |-> FALSE,
              log |-> <<>>,
              written |-> {},
              checker |-> "none",
              exc |-> "none",
              message |-> ""]

NextExport ==
    \/ ExportDefaults
    \/ ExportModelToGraph
    \/ ExportOnnx
    \/ ExportWrite
    \/ ExportWriteInterrupted
    \/ ExportCheck

SpecExport == InitExport /\ [][NextExport]_vars

---------------------------------------------------------------------------
(* register_custom_op_symbolic and unregister_custom_op_symbolic, lines 1146-1185 *)

\* A symbolic name is the sequence of its characters.  The classes of the
\* pattern of line 1147: [a-zA-Z], [0-9], and [a-zA-Z0-9-_]
Letters == {"a", "d", "e", "n", "o", "p", "t", "x", "c", "A"}

Digits == {"1"}

WordCharacters == Letters \cup Digits \cup {"-", "_"}

\* line 1147: re.match of ^[a-zA-Z0-9-_]*::[a-zA-Z-_]+[a-zA-Z0-9-_]*$ on the
\* characters before position last + 1, the two colons at i and i + 1
MatchesUpTo(symbolic_name, last, i) ==
    /\ i + 2 <= last
    /\ symbolic_name[i] = ":"
    /\ symbolic_name[i + 1] = ":"
    /\ \A j \in 1..(i - 1) : symbolic_name[j] \in WordCharacters
    /\ symbolic_name[i + 2] \in Letters \cup {"-", "_"}
    /\ \A j \in (i + 3)..last : symbolic_name[j] \in WordCharacters

\* line 1147: $ matches at the end of the string and before a newline that
\* ends the string
Matches(symbolic_name) ==
    \/ \E i \in 1..Len(symbolic_name) :
          MatchesUpTo(symbolic_name, Len(symbolic_name), i)
    \/ /\ symbolic_name # <<>>
       /\ symbolic_name[Len(symbolic_name)] = "\n"
       /\ \E i \in 1..Len(symbolic_name) :
             MatchesUpTo(symbolic_name, Len(symbolic_name) - 1, i)

\* line 1152: symbolic_name.split("::") of a name that matched, which holds
\* the separator once
SplitName(symbolic_name) ==
    LET i == CHOOSE i \in 1..(Len(symbolic_name) - 1) :
                 symbolic_name[i] = ":" /\ symbolic_name[i + 1] = ":"
    IN  [ns |-> Concatenated(SubSeq(symbolic_name, 1, i - 1)),
         op_name |-> Concatenated(SubSeq(symbolic_name, i + 2, Len(symbolic_name)))]

\* What get_ns_op_name_from_custom_op ends with
NsOpName(exc, ns, op_name) == [exc |-> exc, ns |-> ns, op_name |-> op_name]

\* lines 1146-1161
get_ns_op_name_from_custom_op(symbolic_name) ==
    IF ~Matches(symbolic_name) THEN NsOpName("ValueError", "", "")
    ELSE IF SplitName(symbolic_name).ns = "onnx" THEN NsOpName("ValueError", "", "")
    ELSE IF SplitName(symbolic_name).ns = "aten"
         THEN NsOpName("none", "", SplitName(symbolic_name).op_name)
    ELSE NsOpName("none", SplitName(symbolic_name).ns,
                  SplitName(symbolic_name).op_name)

\* a loop that skips the version equal to opset_version
VersionsAbove(opset_version) ==
    {version \in onnx_stable_opsets \cup {onnx_main_opset} : version > opset_version}

\* lines 1173-1174 and 1183-1184: the versions the loop calls the registry for
VersionsFrom(opset_version) ==
    {version \in onnx_stable_opsets \cup {onnx_main_opset} : version >= opset_version}

\* The registry maps (domain, op name, version) to the symbolic function.
\* sym_registry.register_op for each version of a set
RegisterOps(registry, op_name, symbolic_fn, ns, versions) ==
    [k \in DOMAIN registry \cup {<<ns, op_name, v>> : v \in versions} |->
        IF k \in {<<ns, op_name, v>> : v \in versions}
        THEN symbolic_fn ELSE registry[k]]

\* sym_registry.unregister_op for each version of a set: an op that is
\* registered is deleted, one that is not is left with a warning
UnregisterOps(registry, op_name, ns, versions) ==
    [k \in DOMAIN registry \ {<<ns, op_name, v>> : v \in versions} |-> registry[k]]

\* What a call leaves: the registry and the exception
RegistryAfter(registry, exc) == [registry |-> registry, exc |-> exc]

\* lines 1168-1175
register_custom_op_symbolic(registry, symbolic_name, symbolic_fn, opset_version) ==
    IF get_ns_op_name_from_custom_op(symbolic_name).exc # "none"
    THEN RegistryAfter(registry, get_ns_op_name_from_custom_op(symbolic_name).exc)
    ELSE RegistryAfter(
             RegisterOps(registry, get_ns_op_name_from_custom_op(symbolic_name).op_name,
                         symbolic_fn, get_ns_op_name_from_custom_op(symbolic_name).ns,
                         VersionsFrom(opset_version)),
             "none")

\* lines 1178-1185
unregister_custom_op_symbolic(registry, symbolic_name, opset_version) ==
    IF get_ns_op_name_from_custom_op(symbolic_name).exc # "none"
    THEN RegistryAfter(registry, get_ns_op_name_from_custom_op(symbolic_name).exc)
    ELSE RegistryAfter(
             UnregisterOps(registry, get_ns_op_name_from_custom_op(symbolic_name).op_name,
                           get_ns_op_name_from_custom_op(symbolic_name).ns,
                           VersionsFrom(opset_version)),
             "none")

\* The names the functions are called with: aten::add, ::add, c::op,
\* c::op followed by a newline, onnx::Add, c:op, c::1op, c::op::x and c::
SymbolicNames ==
    {<<"a", "t", "e", "n", ":", ":", "a", "d", "d">>,
     <<":", ":", "a", "d", "d">>,
     <<"c", ":", ":", "o", "p">>,
     <<"c", ":", ":", "o", "p", "\n">>,
     <<"o", "n", "n", "x", ":", ":", "A", "d", "d">>,
     <<"c", ":", "o", "p">>,
     <<"c", ":", ":", "1", "o", "p">>,
     <<"c", ":", ":", "o", "p", ":", ":", "x">>,
     <<"c", ":", ":">>}

\* the opset_version arguments: below every supported version, the last
\* stable one, and above the main one
RegistryOpsetArgs == {6, 13, 15}

CustomSymbolicFns == {"f", "g"}

\* the registry before any custom op: the symbolic of aten::add in all versions
BuiltinRegistry ==
    [k \in {<<"", "add", v>> : v \in onnx_stable_opsets \cup {onnx_main_opset}} |->
        "builtin"]

\* what the last call was and the registry it found
CustomOpCall(op, symbolic_name, symbolic_fn, opset_version, before) ==
    [op |-> op, symbolic_name |-> symbolic_name, symbolic_fn |-> symbolic_fn,
     opset_version |-> opset_version, before |-> before]

\* line 1168
RegisterCustomOpSymbolic ==
    /\ cr.pc = "running"
    /\ cr.calls < MaxRegistryCalls
    /\ \E symbolic_name \in SymbolicNames, symbolic_fn \in CustomSymbolicFns,
          opset_version \in RegistryOpsetArgs :
        cr' = [pc |-> "running",
               calls |-> cr.calls + 1,
               registry |-> register_custom_op_symbolic(
                                cr.registry, symbolic_name, symbolic_fn,
                                opset_version).registry,
               exc |-> register_custom_op_symbolic(
                           cr.registry, symbolic_name, symbolic_fn,
                           opset_version).exc,
               last |-> Some(CustomOpCall("register", symbolic_name, symbolic_fn,
                                          opset_version, cr.registry))]
    /\ UNCHANGED <<globals, stack, calls, cfg, da, sn, rs, uo, mg, og, ex, st, th>>

\* line 1178
UnregisterCustomOpSymbolic ==
    /\ cr.pc = "running"
    /\ cr.calls < MaxRegistryCalls
    /\ \E symbolic_name \in SymbolicNames, opset_version \in RegistryOpsetArgs :
        cr' = [pc |-> "running",
               calls |-> cr.calls + 1,
               registry |-> unregister_custom_op_symbolic(
                                cr.registry, symbolic_name, opset_version).registry,
               exc |-> unregister_custom_op_symbolic(
                           cr.registry, symbolic_name, opset_version).exc,
               last |-> Some(CustomOpCall("unregister", symbolic_name, "",
                                          opset_version, cr.registry))]
    /\ UNCHANGED <<globals, stack, calls, cfg, da, sn, rs, uo, mg, og, ex, st, th>>

InitCustomOps ==
    /\ InitGlobals
    /\ model_training = FALSE
    /\ CAFFE2_ATEN_FALLBACK = FALSE
    /\ stack = <<>>
    /\ calls = 0
    /\ cfg = IdleCfg
    /\ da = IdleDa
    /\ sn = IdleSn
    /\ rs = IdleRs
    /\ uo = IdleUo
    /\ mg = IdleMg
    /\ og = IdleOg
    /\ ex = IdleEx
    /\ st = IdleSt
    /\ th = IdleTh
    /\ cr = [pc |-> "running", calls |-> 0, registry |-> BuiltinRegistry,
             exc |-> "none", last |-> None]

NextCustomOps ==
    \/ RegisterCustomOpSymbolic
    \/ UnregisterCustomOpSymbolic

SpecCustomOps == InitCustomOps /\ [][NextCustomOps]_vars

---------------------------------------------------------------------------
(* _export called from two threads, lines 668-671 and 782-785 *)

\* The interpreter runs one thread at a time and may switch threads between
\* any two statements: the assert of line 669, the assignment of line 670,
\* the body, the assert of line 783 and the assignment of line 784 are
\* separate steps of a thread
Threads == {1, 2}

\* where a thread is between the assignments of lines 670 and 784
WorkPhase == {"work", "finally", "asserted"}

\* where a thread is outside a call
Outside == {"idle", "done", "rejected", "failed"}

\* a guard that lets every call pass
IsFalseOrSet(flag) == TRUE

\* line 669: the assertion passes
IsFalse(flag) == flag = FALSE

\* th with thread t at pc, having raised exc
At(t, pc, exc) == [th EXCEPT !.threads[t].pc = pc, !.threads[t].exc = exc]

\* line 669: assert __IN_ONNX_EXPORT is False, raised outside the try
\* statement.  interleaved records that the flag was read while the other
\* thread was between its own read and its assignment of line 670
AssertNotInExport(t) ==
    /\ th.threads[t].pc \in Outside
    /\ th.threads[t].calls < MaxThreadCalls
    /\ th' = [IF IsFalse(IN_ONNX_EXPORT)
              THEN At(t, "checked", "none")
              ELSE At(t, "rejected", "AssertionError")
                 EXCEPT !.threads[t].calls = th.threads[t].calls + 1,
                        !.interleaved =
                            th.interleaved
                            \/ \E u \in Threads \ {t} : th.threads[u].pc = "checked"]
    /\ UNCHANGED <<globals, stack, calls, cfg, da, sn, rs, uo, mg, og, ex, st, cr>>

\* line 670
SetInExport(t) ==
    /\ th.threads[t].pc = "checked"
    /\ IN_ONNX_EXPORT' = TRUE
    /\ th' = At(t, "work", "none")
    /\ UNCHANGED <<export_onnx_opset_version, operator_export_type,
                   onnx_shape_inference, training_mode, trace_module_map,
                   CAFFE2_ATEN_FALLBACK, model_training,
                   stack, calls, cfg, da, sn, rs, uo, mg, og, ex, st, cr>>

\* lines 671-781: the body of the try statement returns or raises
TryBodyOfThread(t) ==
    /\ th.threads[t].pc = "work"
    /\ \E exc \in {"none", "RuntimeError"} : th' = At(t, "finally", exc)
    /\ UNCHANGED <<globals, stack, calls, cfg, da, sn, rs, uo, mg, og, ex, st, cr>>

\* line 783: assert __IN_ONNX_EXPORT; its AssertionError replaces the
\* exception of the body and skips lines 784-785
AssertInExport(t) ==
    /\ th.threads[t].pc = "finally"
    /\ th' = IF IN_ONNX_EXPORT
             THEN At(t, "asserted", th.threads[t].exc)
             ELSE At(t, "failed", "AssertionError")
    /\ UNCHANGED <<globals, stack, calls, cfg, da, sn, rs, uo, mg, og, ex, st, cr>>

\* line 784
ClearInExport(t) ==
    /\ th.threads[t].pc = "asserted"
    /\ IN_ONNX_EXPORT' = FALSE
    /\ th' = At(t, "done", th.threads[t].exc)
    /\ UNCHANGED <<export_onnx_opset_version, operator_export_type,
                   onnx_shape_inference, training_mode, trace_module_map,
                   CAFFE2_ATEN_FALLBACK, model_training,
                   stack, calls, cfg, da, sn, rs, uo, mg, og, ex, st, cr>>

InitThreads ==
    /\ InitGlobals
    /\ model_training = FALSE
    /\ CAFFE2_ATEN_FALLBACK = FALSE
    /\ stack = <<>>
    /\ calls = 0
    /\ cfg = IdleCfg
    /\ da = IdleDa
    /\ sn = IdleSn
    /\ rs = IdleRs
    /\ uo = IdleUo
    /\ mg = IdleMg
    /\ og = IdleOg
    /\ ex = IdleEx
    /\ st = IdleSt
    /\ cr = IdleCr
    /\ th = [pc |-> "running",
             threads |-> [t \in Threads |-> [pc |-> "idle", calls |-> 0, exc |-> "none"]],
             interleaved |-> FALSE]

NextThreads ==
    \E t \in Threads :
        \/ AssertNotInExport(t)
        \/ SetInExport(t)
        \/ TryBodyOfThread(t)
        \/ AssertInExport(t)
        \/ ClearInExport(t)

SpecThreads == InitThreads /\ [][NextThreads]_vars

---------------------------------------------------------------------------
(* unconvertible_ops after earlier exports, lines 591-625 *)

\* lines 181, 225-228, 249-250 and 505-538: the conversion reads the
\* process-wide shape-inference flag, and the values of the graph it returns
\* carry inferred shapes and types only if the flag is set
ShapesInferred(g) == g.onnx_shape_inference

\* the globals a complete call of _export leaves, its body ending with exc
AfterExport(b, exc) ==
    IF b.exc # "none" THEN b.g
    ELSE ExportEnd(b.g, "Module", b.is_originally_training, exc).g

\* the globals a complete call of export_to_pretty_string leaves
AfterPrettyString(b) ==
    IF b.exc # "none" THEN b.g
    ELSE ExitContext(b.g, "Module", b.is_originally_training)

\* lines 654-786: a call of _export made before a scan
EarlierExport ==
    /\ uo.pc \in {"first", "second"}
    /\ calls < MaxCalls
    /\ calls' = calls + 1
    /\ \E osi \in BOOLEAN, opset_arg \in OpsetArgs,
          oet_arg \in ExportTypeArgs \cup {"None"}, exc \in BodyResults :
        SetGlobals(AfterExport(ExportBegin(Globals, "Module", "False", osi,
                                           opset_arg, oet_arg, "None"),
                               exc))
    /\ UNCHANGED <<stack, cfg, da, sn, rs, uo, pipeline>>

\* lines 560-589: a call of export_to_pretty_string made before a scan
EarlierPrettyString ==
    /\ uo.pc \in {"first", "second"}
    /\ calls < MaxCalls
    /\ calls' = calls + 1
    /\ \E opset_arg \in OpsetArgs, oet_arg \in ExportTypeArgs :
        SetGlobals(AfterPrettyString(PrettyBegin(Globals, "Module", opset_arg,
                                                 oet_arg, "None")))
    /\ UNCHANGED <<stack, cfg, da, sn, rs, uo, pipeline>>

\* what a scan returned: the graph with the shape information of its values,
\* the list and the exception
ScanResult(r, shapes_inferred) ==
    [graph |-> r.graph,
     shapes_inferred |-> IF r.exc = "none" THEN Some(shapes_inferred) ELSE None,
     unsupported_ops |-> r.unsupported_ops,
     exc |-> r.exc]

\* line 591: one call of unconvertible_ops; the second call is made with the
\* arguments of the first
UnconvertibleOpsAfterExports ==
    /\ uo.pc \in {"first", "second"}
    /\ SetGlobals(unconvertible_ops(Globals, uo.model, uo.training, uo.opset_version,
                                    CAFFE2_ATEN_FALLBACK, uo.registry, uo.outcome).g)
    /\ uo' = [uo EXCEPT
                !.pc = IF uo.pc = "first" THEN "second" ELSE "done",
                !.results =
                    Append(@, ScanResult(
                                  unconvertible_ops(Globals, uo.model, uo.training,
                                                    uo.opset_version, CAFFE2_ATEN_FALLBACK,
                                                    uo.registry, uo.outcome),
                                  ShapesInferred(Globals)))]
    /\ UNCHANGED <<stack, calls, cfg, da, sn, rs, pipeline>>

\* the models of at most one node
HistoryModels == {m \in ScanModels : Len(m.graph) <= 1}

InitScanHistory ==
    /\ InitGlobals
    /\ CAFFE2_ATEN_FALLBACK = FALSE
    /\ stack = <<>>
    /\ calls = 0
    /\ IdlePipeline
    /\ cfg = IdleCfg
    /\ da = IdleDa
    /\ sn = IdleSn
    /\ rs = IdleRs
    /\ \E model \in HistoryModels, registry \in ScanRegistries :
        uo = [pc |-> "first",
              model |-> model,
              training |-> "EVAL",
              opset_version |-> None,
              registry |-> registry,
              outcome |-> Returns,
              results |-> <<>>]

NextScanHistory ==
    \/ EarlierExport
    \/ EarlierPrettyString
    \/ UnconvertibleOpsAfterExports

SpecScanHistory == InitScanHistory /\ [][NextScanHistory]_vars

---------------------------------------------------------------------------
(* Properties of the orchestrator *)

\* A frame of _export that has returned or raised
ExportTerminated == Running("_export", "return")

\* A call of _export made while an export is in flight, about to run
ReentrantStart == Running("_export", "start") /\ Top.in_export_at_entry

\* C1: after a call of _export that started with the in-progress flag False
\* terminates, by return or by any exception, is_in_onnx_export() is False.
C1_FlagClearedOnEveryExit ==
    (ExportTerminated /\ ~Top.in_export_at_entry) => ~is_in_onnx_export

\* C1 witness: an _export that set the flag and whose body raised
C1_Witness ==
    /\ ExportTerminated
    /\ ~Top.in_export_at_entry
    /\ Top.kind = "Module"
    /\ Top.is_originally_training # None
    /\ Top.exc = "RuntimeError"

\* C2 as stated: a call of _export while another export is in flight fails
\* with an assertion failure before any export work starts, leaves the flag
\* True and changes none of the opset version, the operator export type and
\* the shape-inference setting.
C2_ReentrantCallAssertionFailure ==
    [][ReentrantStart =>
          /\ Top'.pc = "return"
          /\ Top'.exc = "AssertionError"
          /\ IN_ONNX_EXPORT'
          /\ UNCHANGED <<export_onnx_opset_version, operator_export_type,
                         onnx_shape_inference>>]_vars

\* C2 amended: such a call fails before any export work starts, with the
\* AssertionError of the guard unless a check that runs before the guard
\* raises first (ValueError for a DataParallel model, RuntimeError for an
\* export_modules_as_functions set holding a non-type, AttributeError for
\* export_modules_as_functions with a ScriptFunction); the flag stays True and
\* the opset version, the operator export type and the shape-inference
\* setting are unchanged.
C2_ReentrantCallRejected ==
    [][ReentrantStart =>
          /\ Top'.pc = "return"
          /\ Top'.exc \in
               CASE Top.kind = "Module" -> {"AssertionError", "RuntimeError"}
                 [] Top.kind = "DataParallel" -> {"ValueError", "RuntimeError"}
                 [] Top.kind = "ScriptFunction" -> {"AssertionError", "AttributeError"}
          /\ IN_ONNX_EXPORT'
          /\ UNCHANGED <<export_onnx_opset_version, operator_export_type,
                         onnx_shape_inference>>]_vars

\* C2 witness: a re-entrant call stopped by the guard, the outer export
\* still in its work phase
C2_Witness ==
    /\ ExportTerminated
    /\ Top.in_export_at_entry
    /\ Top.exc = "AssertionError"
    /\ Len(stack) = 2
    /\ stack[1].fn = "_export"
    /\ stack[1].pc = "work"

\* C3: for a model that is not a ScriptFunction and every training
\* argument, when the body of exporter_context has been left, normally or
\* by an exception, model.training is what it was on entry, in each of the
\* three entry points.
C3_TrainingFlagRestored ==
    (stack # <<>> /\ Top.pc = "return" /\ Top.is_originally_training # None)
        => model_training = Top.is_originally_training[1]

\* C3 witness: the body flipped an eval-mode model to training and was left
\* by an exception
C3_Witness ==
    /\ Running("unconvertible_ops", "return")
    /\ Top.is_originally_training = Some(FALSE)
    /\ training_mode = Some(TRUE)
    /\ Top.exc = "RuntimeError"
    /\ model_training = FALSE

\* C4 as stated: when _export has terminated, the opset version and the
\* operator export type are back at the values they had before the call.
C4_SettingsResetAfterExport ==
    ExportTerminated =>
        /\ export_onnx_opset_version = Top.settings_at_entry[1].export_onnx_opset_version
        /\ operator_export_type = Top.settings_at_entry[1].operator_export_type

\* C5 as stated: when _export has terminated, on any exit path, the global
\* trace module map is None.
C5_TraceModuleMapResetOnEveryExit ==
    ExportTerminated => trace_module_map = "None"

\* The frame on top is about to run its first statements
Starting == stack # <<>> /\ Top.pc = "start"

\* C28: when the body of select_model_mode_for_export is entered for a model
\* that is not a ScriptFunction, model.training and the global export
\* training mode are both True if mode is TRAINING, or mode is PRESERVE and
\* the model was training before, and both False otherwise (mode None counts
\* as EVAL).
C28_ModeInsideBody ==
    [][(Starting /\ Top.kind # "ScriptFunction" /\ Top'.pc = "work") =>
          LET expected == CASE Top'.mode = "TRAINING" -> TRUE
                            [] Top'.mode = "PRESERVE" -> model_training
                            [] Top'.mode \in {"EVAL", "None"} -> FALSE
          IN  /\ model_training' = expected
              /\ training_mode' = Some(expected)]_vars

\* C28 witness: a body entered with mode PRESERVE for a model that was
\* training
C28_Witness ==
    /\ Running("export_to_pretty_string", "work")
    /\ Top.kind = "Module"
    /\ Top.mode = "PRESERVE"
    /\ Top.is_originally_training = Some(TRUE)
    /\ model_training
    /\ training_mode = Some(TRUE)

---------------------------------------------------------------------------
(* Properties of the configuration resolvers *)

\* C6: for every requested keep_initializers_as_inputs (None, True, False)
\* and every operator export type, _decide_keep_init_as_input returns True
\* whenever opset_version < 9.
C6_KeepInitForcedBelowOpset9 ==
    (cfg.pc # "idle" /\ cfg.val_keep_init_as_ip # None /\ cfg.opset_version < 9)
        => cfg.val_keep_init_as_ip = Some(TRUE)

\* C6 witness: opset 8 with keep_initializers_as_inputs=False requested
C6_Witness ==
    /\ cfg.pc = "add_node_names"
    /\ cfg.opset_version = 8
    /\ cfg.keep_initializers_as_inputs = Some(FALSE)
    /\ cfg.val_keep_init_as_ip = Some(TRUE)
    /\ cfg.warnings = <<KeepInitializersIgnored>>

\* C7: for opset_version >= 9, _decide_keep_init_as_input returns the
\* requested value when it is True or False, and for None returns False if
\* the operator export type is ONNX and True for every other export type.
C7_KeepInitFromOpset9 ==
    (cfg.pc # "idle" /\ cfg.val_keep_init_as_ip # None /\ cfg.opset_version >= 9)
        => /\ cfg.keep_initializers_as_inputs # None
              => cfg.val_keep_init_as_ip = cfg.keep_initializers_as_inputs
           /\ cfg.keep_initializers_as_inputs = None
              => cfg.val_keep_init_as_ip = Some(cfg.operator_export_type # "ONNX")

\* C7 witness: nothing requested, export type ONNX, opset 9
C7_Witness ==
    /\ cfg.pc = "add_node_names"
    /\ cfg.opset_version = 9
    /\ cfg.keep_initializers_as_inputs = None
    /\ cfg.operator_export_type = "ONNX"
    /\ cfg.val_keep_init_as_ip = Some(FALSE)

\* C8 as stated: whenever the training mode is TRAINING or PRESERVE,
\* _decide_constant_folding returns False, even for do_constant_folding=True
\* with export type ONNX.
C8_ConstantFoldingForcedOffInTraining ==
    (cfg.pc = "done" /\ cfg.training \in {"TRAINING", "PRESERVE"})
        => cfg.val_do_constant_folding = Some(FALSE)

\* C8 amended: constant folding is not forced off when the training mode is
\* not EVAL: for training = TRAINING or PRESERVE, _decide_constant_folding
\* returns True exactly when do_constant_folding=True was requested with
\* export type ONNX, and in exactly that case warns that turning it off is
\* recommended.
C8_ConstantFoldingOnlyWarnsInTraining ==
    (cfg.pc = "done" /\ cfg.training \in {"TRAINING", "PRESERVE"})
        => LET requested == cfg.do_constant_folding /\ cfg.operator_export_type = "ONNX"
           IN  /\ cfg.val_do_constant_folding = Some(requested)
               /\ Count(ConstantFoldingInTraining, cfg.warnings)
                    = IF requested THEN 1 ELSE 0

\* C8 witness: folding requested with export type ONNX in TRAINING mode
C8_Witness ==
    /\ cfg.pc = "done"
    /\ cfg.training = "TRAINING"
    /\ cfg.do_constant_folding
    /\ cfg.operator_export_type = "ONNX"
    /\ cfg.val_do_constant_folding = Some(TRUE)
    /\ Count(ConstantFoldingInTraining, cfg.warnings) = 1

\* C9: when the operator export type is not ONNX the resolved
\* do_constant_folding and add_node_names are False and the ignored-argument
\* warning is issued exactly when the requested value was True; when the
\* export type is ONNX the requested value is returned unchanged.
C9_ArgsResolvedByExportType ==
    cfg.pc = "done" =>
        IF cfg.operator_export_type # "ONNX"
        THEN /\ cfg.val_do_constant_folding = Some(FALSE)
             /\ cfg.val_add_node_names = Some(FALSE)
             /\ Count(IgnoredArgument("do_constant_folding"), cfg.warnings)
                  = IF cfg.do_constant_folding THEN 1 ELSE 0
             /\ Count(IgnoredArgument("add_node_names"), cfg.warnings)
                  = IF cfg.add_node_names THEN 1 ELSE 0
        ELSE /\ cfg.val_do_constant_folding = Some(cfg.do_constant_folding)
             /\ cfg.val_add_node_names = Some(cfg.add_node_names)
             /\ Count(IgnoredArgument("do_constant_folding"), cfg.warnings) = 0
             /\ Count(IgnoredArgument("add_node_names"), cfg.warnings) = 0

\* C9 witness: export type ONNX_ATEN, folding requested, node names not
C9_Witness ==
    /\ cfg.pc = "done"
    /\ cfg.operator_export_type = "ONNX_ATEN"
    /\ cfg.do_constant_folding
    /\ ~cfg.add_node_names
    /\ cfg.val_do_constant_folding = Some(FALSE)
    /\ cfg.val_add_node_names = Some(FALSE)
    /\ Count(IgnoredArgument("do_constant_folding"), cfg.warnings) = 1
    /\ Count(IgnoredArgument("add_node_names"), cfg.warnings) = 0

---------------------------------------------------------------------------
(* Properties of _validate_dynamic_axes *)

\* the 1-based position of the first occurrence of axis a in a list of ints
FirstPosition(axes, a) ==
    CHOOSE i \in 1..Len(axes) :
        axes[i].val = a /\ \A j \in 1..(i - 1) : axes[j].val # a

Occurrences(axes, a) == Cardinality({i \in 1..Len(axes) : axes[i].val = a})

AllIntegerAxes(value) ==
    value.type = "list" => \A i \in 1..Len(value.items) : value.items[i].type = "int"

\* the loop of line 1206 got past item k of the dict that was passed
ItemConverted(k) == \A j \in 1..k : AllIntegerAxes(da.args[j].value)

\* C10: every list-form value [a_1..a_n] of integer axes under key k is
\* replaced by a mapping that sends each distinct axis to k + "_dynamic_axes_"
\* + j, j the 1-based position of the axis' first occurrence in the list; a
\* repeated axis produces a warning and no entry of its own; dict-form
\* values are left unchanged.  {"x": [0, 2]} becomes
\* {"x": {0: "x_dynamic_axes_1", 2: "x_dynamic_axes_2"}}.
C10_ListAxesBecomeGeneratedNames ==
    da.pc = "done" =>
        /\ Len(da.dynamic_axes) = Len(da.args)
        /\ \A k \in 1..Len(da.args) :
             ItemConverted(k) =>
                LET key == da.args[k].key
                    given == da.args[k].value
                    result == da.dynamic_axes[k].value
                IN  /\ da.dynamic_axes[k].key = key
                    /\ given.type = "dict" => result = given
                    /\ given.type = "list" =>
                         /\ result.type = "dict"
                         /\ DOMAIN result.items
                              = {given.items[i].val : i \in 1..Len(given.items)}
                         /\ \A a \in DOMAIN result.items :
                              /\ result.items[a]
                                   = key \o "_dynamic_axes_"
                                         \o ToString(FirstPosition(given.items, a))
                              /\ Count(DuplicateAxis(key, a), da.warnings)
                                   = Occurrences(given.items, a) - 1
        /\ da.args = <<Item("x", ListValue(<<IntAxis(0), IntAxis(2)>>))>>
             => da.dynamic_axes
                  = <<Item("x", DictValue((0 :> "x_dynamic_axes_1"
                                           @@ 2 :> "x_dynamic_axes_2")))>>

\* C10 witness: {"x": [0, 0, 2]} has become
\* {"x": {0: "x_dynamic_axes_1", 2: "x_dynamic_axes_3"}} with one
\* duplicate-axis warning
C10_Witness ==
    /\ da.pc = "done"
    /\ da.args = <<Item("x", ListValue(<<IntAxis(0), IntAxis(0), IntAxis(2)>>))>>
    /\ da.dynamic_axes
         = <<Item("x", DictValue((0 :> "x_dynamic_axes_1" @@ 2 :> "x_dynamic_axes_3")))>>
    /\ Count(DuplicateAxis("x", 0), da.warnings) = 1
    /\ da.exc = "none"

\* the names the call knows: the given input and output names, each replaced
\* by the graph's own when the model has a graph and the list is None or empty
KnownNames ==
    LET given(names) == IF names = None THEN <<>> ELSE names[1]
        ins == IF da.model_graph # None /\ given(da.input_names) = <<>>
               THEN da.model_graph[1].inputs ELSE given(da.input_names)
        outs == IF da.model_graph # None /\ given(da.output_names) = <<>>
                THEN da.model_graph[1].outputs ELSE given(da.output_names)
    IN  {ins[j] : j \in 1..Len(ins)} \cup {outs[j] : j \in 1..Len(outs)}

\* C11: _validate_dynamic_axes never fails because a key is not among the
\* known input/output names: for such a key it warns, still converts a
\* list-form value of that key and goes on with the remaining keys; the only
\* error it raises is ValueError, and it raises it exactly when a list holds
\* an axis index that is not an integer.
C11_UnknownKeyOnlyWarns ==
    da.pc = "done" =>
        /\ da.exc \in {"none", "ValueError"}
        /\ da.exc = "ValueError"
             <=> \E k \in 1..Len(da.args) : ~AllIntegerAxes(da.args[k].value)
        /\ \A k \in 1..Len(da.args) :
             (da.args[k].key \notin KnownNames
                 /\ \A j \in 1..(k - 1) : AllIntegerAxes(da.args[j].value)) =>
                /\ Count(InvalidName(da.args[k].key), da.warnings) = 1
                /\ (da.args[k].value.type = "list" /\ AllIntegerAxes(da.args[k].value))
                     => /\ da.dynamic_axes[k].value.type = "dict"
                        /\ DOMAIN da.dynamic_axes[k].value.items
                             = {da.args[k].value.items[i].val :
                                    i \in 1..Len(da.args[k].value.items)}
                /\ \A n \in (k + 1)..Len(da.args) :
                     (da.args[n].value.type = "list" /\ ItemConverted(n))
                        => da.dynamic_axes[n].value.type = "dict"

\* C11 witness: "z" is no input or output name; its list and the list of
\* the following key "x" have both been converted, with one warning for "z"
C11_Witness ==
    /\ da.pc = "done"
    /\ da.exc = "none"
    /\ KnownNames = {"x", "y"}
    /\ da.args = <<Item("z", ListValue(<<IntAxis(0)>>)),
                   Item("x", ListValue(<<IntAxis(2)>>))>>
    /\ da.dynamic_axes = <<Item("z", DictValue((0 :> "z_dynamic_axes_1"))),
                           Item("x", DictValue((2 :> "x_dynamic_axes_1")))>>
    /\ Count(InvalidName("z"), da.warnings) = 1
    /\ Count(InvalidName("x"), da.warnings) = 0

---------------------------------------------------------------------------
(* Properties of _set_input_and_output_names *)

\* position i of the graph that was passed holds a value that an earlier
\* output position holds too
LaterOccurrence(i) ==
    \E j \in 1..(i - 1) : sn.graph0.outputs[j] = sn.graph0.outputs[i]

\* C12: after _set_input_and_output_names with N requested output names (N
\* not larger than the number of graph outputs) the debug name of the i-th
\* graph output is the i-th requested name for every i < N, also when one
\* value occupies several output positions: each later occurrence is
\* replaced in the return node by the output of a newly inserted
\* onnx::Identity node fed by that value, so the named outputs are distinct
\* values with distinct names instead of being merged.
C12_OutputsCarryRequestedNames ==
    (sn.pc = "done" /\ sn.exc = "none" /\ sn.output_names # None) =>
        LET requested == sn.output_names[1]
            N == Len(requested)
            before == sn.graph0
            after == sn.graph
        IN  /\ N <= Len(before.outputs)
            /\ Len(after.outputs) = Len(before.outputs)
            /\ \A i \in 1..N :
                 /\ after.names[after.outputs[i]] = requested[i]
                 /\ IF LaterOccurrence(i)
                    THEN /\ after.outputs[i] > Len(before.names)
                         /\ \E n \in 1..Len(after.identities) :
                              after.identities[n]
                                = [input |-> before.outputs[i],
                                   output |-> after.outputs[i]]
                    ELSE after.outputs[i] = before.outputs[i]
            /\ \A i, j \in 1..N : after.outputs[i] = after.outputs[j] => i = j
            /\ Len(after.identities) = Cardinality({i \in 1..N : LaterOccurrence(i)})
            /\ \A i \in (N + 1)..Len(before.outputs) :
                 after.outputs[i] = before.outputs[i]

\* C12 witness: value 1 is returned twice and the names "a", "b" are
\* requested; the second position now holds the output of an Identity of 1
C12_Witness ==
    /\ sn.pc = "done"
    /\ sn.exc = "none"
    /\ sn.graph0.outputs = <<1, 1>>
    /\ sn.output_names = Some(<<"a", "b">>)
    /\ sn.graph.outputs = <<1, 4>>
    /\ sn.graph.identities = <<[input |-> 1, output |-> 4]>>
    /\ sn.graph.names[1] = "a"
    /\ sn.graph.names[4] = "b"

\* the values a list of names reaches: the first Len(names) of the nodes
Named(node_list, name_list) ==
    IF name_list = None
    THEN {}
    ELSE {node_list[i] : i \in 1..Len(name_list[1]) \cap 1..Len(node_list)}

TooLong(node_list, name_list) ==
    name_list # None /\ Len(name_list[1]) > Len(node_list)

\* C13: _set_input_and_output_names raises RuntimeError exactly when the
\* list of input names is longer than the graph's inputs or the list of
\* output names is longer than the graph's outputs; a shorter list renames
\* only the first len(names) inputs/outputs, and a None list renames
\* nothing.
C13_RuntimeErrorOnlyForTooManyNames ==
    sn.pc = "done" =>
        LET before == sn.graph0
            after == sn.graph
            named_inputs == Named(before.inputs, sn.input_names)
            named_outputs == Named(before.outputs, sn.output_names)
        IN  /\ sn.exc \in {"none", "RuntimeError"}
            /\ sn.exc = "RuntimeError"
                 <=> \/ TooLong(before.inputs, sn.input_names)
                     \/ TooLong(before.outputs, sn.output_names)
            /\ sn.exc = "none" =>
                 /\ \A v \in 1..Len(before.names) :
                      v \notin named_inputs \cup named_outputs
                          => after.names[v] = before.names[v]
                 /\ \A i \in 1..Len(before.inputs) :
                      (before.inputs[i] \in named_inputs
                          /\ before.inputs[i] \notin named_outputs)
                          => after.names[before.inputs[i]] = sn.input_names[1][i]
                 /\ after.inputs = before.inputs
                 /\ sn.output_names = None
                      => after.outputs = before.outputs /\ after.identities = <<>>
                 /\ (sn.input_names = None /\ sn.output_names = None)
                      => after = before

\* C13 witness: two names for the one output of the graph
C13_Witness ==
    /\ sn.pc = "done"
    /\ sn.exc = "RuntimeError"
    /\ sn.graph0.outputs = <<3>>
    /\ sn.output_names = Some(<<"a", "b">>)
    /\ sn.input_names = None
    /\ sn.graph = sn.graph0

\* the call was given more names than the graph has inputs (or outputs)
TooManyInputNames ==
    sn.input_names # None /\ Len(sn.input_names[1]) > Len(sn.graph0.inputs)

TooManyOutputNames ==
    sn.output_names # None /\ Len(sn.output_names[1]) > Len(sn.graph0.outputs)

\* the inputs that input_names names
NamedInputs ==
    IF sn.input_names = None THEN {}
    ELSE {sn.graph0.inputs[i] : i \in 1..Len(sn.input_names[1])}

\* C36 as stated: if _set_input_and_output_names raises its too-many-names
\* RuntimeError the graph is as before the call: no debug name has been
\* changed and no Identity node inserted, whichever list is too long.
C36_GraphUntouchedOnTooManyNames ==
    (sn.pc = "done" /\ sn.exc = "RuntimeError") => sn.graph = sn.graph0

\* C36 amended: if _set_input_and_output_names raises its too-many-names
\* RuntimeError for the input names, the graph is as before the call; if it
\* raises it for the output names, no Identity node has been inserted and no
\* output has been given a name of output_names: only the set_names call for
\* the inputs has run, which has set the debug names of the graph's inputs
\* to the input names.
C36_OnlyInputsNamedOnTooManyNames ==
    (sn.pc = "done" /\ sn.exc = "RuntimeError") =>
        IF TooManyInputNames
        THEN sn.graph = sn.graph0
        ELSE /\ TooManyOutputNames
             /\ sn.graph.identities = sn.graph0.identities
             /\ sn.graph.inputs = sn.graph0.inputs
             /\ sn.graph.outputs = sn.graph0.outputs
             /\ Len(sn.graph.names) = Len(sn.graph0.names)
             /\ \A v \in 1..Len(sn.graph0.names) :
                   v \notin NamedInputs => sn.graph.names[v] = sn.graph0.names[v]
             /\ \A i \in 1..Len(sn.graph0.inputs) :
                   (sn.input_names # None /\ i <= Len(sn.input_names[1]))
                       => sn.graph.names[sn.graph0.inputs[i]] = sn.input_names[1][i]

\* C36 witness: two output names for a graph of one output raised the
\* error after the input that was named x had been renamed a
C36_Witness ==
    /\ sn.pc = "done"
    /\ sn.exc = "RuntimeError"
    /\ sn.graph0.inputs = <<1, 2>>
    /\ sn.input_names = Some(<<"a">>)
    /\ Len(sn.graph0.outputs) = 1
    /\ sn.output_names = Some(<<"x", "b">>)
    /\ sn.graph0.names[1] = "x"
    /\ sn.graph.names[1] = "a"

---------------------------------------------------------------------------
(* Properties of _run_symbolic_function *)

\* the registry domain of the node that was passed
OwnDomain ==
    CASE rs.n.ns = "aten" -> ""
      [] rs.n.ns = "quantized" ->
            IF rs.operator_export_type = "ONNX_ATEN_FALLBACK" /\ CAFFE2_ATEN_FALLBACK
            THEN "caffe2" ELSE ""
      [] OTHER -> rs.n.ns

\* a translation is registered for the node's (domain, op name, opset version)
TranslationRegistered ==
    <<OwnDomain, rs.n.op, export_onnx_opset_version>> \in rs.registry

\* an ATen fallback applies, as lines 1008-1013 decide it
AtenFallbackApplies ==
    \/ rs.operator_export_type = "ONNX_ATEN"
    \/ /\ rs.operator_export_type = "ONNX_ATEN_FALLBACK"
       /\ <<"", rs.n.op, export_onnx_opset_version>> \notin rs.registry

CalleeIs(callee) == rs.called # None /\ rs.called[1].callee = callee

C15_UnsupportedOperatorError ==
    (rs.pc = "done" /\ ~TranslationRegistered /\ rs.n.ns # "onnx"
        /\ ~AtenFallbackApplies) =>
        /\ rs.called = None
        /\ IF rs.operator_export_type = "ONNX_FALLTHROUGH"
           THEN rs.exc = None /\ rs.value = Some(None)
           ELSE /\ rs.exc = Some(UnsupportedOperatorError(
                                    OwnDomain, rs.n.op, export_onnx_opset_version))
                /\ rs.value = None

\* C15 witness: custom::add_ without a translation, export type ONNX
C15_Witness ==
    /\ rs.pc = "done"
    /\ rs.operator_export_type = "ONNX"
    /\ Kind(rs.n) = "custom::add_"
    /\ rs.registry = {}
    /\ export_onnx_opset_version = 9
    /\ rs.exc = Some(Exception("UnsupportedOperatorError", <<"custom", "add", 9>>))

\* a RuntimeError was raised during the dispatch: by the function or graph
\* method that was called, or by line 1078
RuntimeErrorRaised ==
    \/ rs.called # None /\ rs.outcome.type = "RuntimeError"
    \/ rs.called = None /\ ~TranslationRegistered

\* C16: in ONNX_FALLTHROUGH _run_symbolic_function never propagates a
\* RuntimeError: any RuntimeError raised during dispatch, also one raised
\* inside a registered translation function or inside the onnx-clone path,
\* results in returning None; in every other mode the RuntimeError
\* propagates.
C16_FallthroughSwallowsRuntimeError ==
    rs.pc = "done" =>
        IF rs.operator_export_type = "ONNX_FALLTHROUGH"
        THEN /\ rs.exc # None => ~IsRuntimeError(rs.exc[1])
             /\ RuntimeErrorRaised => (rs.exc = None /\ rs.value = Some(None))
        ELSE /\ RuntimeErrorRaised => (rs.exc # None /\ IsRuntimeError(rs.exc[1]))
             /\ (rs.called # None /\ rs.outcome.type = "RuntimeError")
                   => rs.exc = Some(rs.outcome)

\* C16 witness: the registered translation raised RuntimeError in
\* ONNX_FALLTHROUGH and None was returned
C16_Witness ==
    /\ rs.pc = "done"
    /\ rs.operator_export_type = "ONNX_FALLTHROUGH"
    /\ TranslationRegistered
    /\ CalleeIs("symbolic_fn")
    /\ rs.outcome = Exception("RuntimeError", <<"message">>)
    /\ rs.exc = None
    /\ rs.value = Some(None)

\* C17: a TypeError raised while translating a node is re-raised in every
\* operator export type, ONNX_FALLTHROUGH included, with its message
\* augmented by the name of the operator being translated; it is never
\* swallowed into a pass-through.
C17_TypeErrorReraisedAugmented ==
    (rs.pc = "done" /\ rs.called # None /\ rs.outcome.type = "TypeError") =>
        /\ rs.value = None
        /\ rs.exc # None
        /\ rs.exc[1].type = "TypeError"
        /\ Len(rs.exc[1].args) = 1
        /\ rs.exc[1].args[1][3] = rs.n.op

\* C18: in ONNX_ATEN_FALLBACK every node that is not in the onnx namespace
\* and has no translation registered for its own (domain, op name, opset
\* version) is emitted as an ATen wrapper node carrying the original operator
\* name and attributes; in ONNX_ATEN every such node is; in ONNX none is.
C18_UnregisteredNodesBecomeAtenWrappers ==
    (rs.pc = "done" /\ rs.n.ns # "onnx" /\ ~TranslationRegistered) =>
        /\ rs.operator_export_type \in {"ONNX_ATEN_FALLBACK", "ONNX_ATEN"}
             => /\ CalleeIs("g.at")
                /\ rs.called[1].args.opname = rs.n.op
                /\ rs.called[1].args.aten
                /\ Len(rs.called[1].args.attrs) = Len(rs.n.attrs)
        /\ rs.operator_export_type = "ONNX" => ~CalleeIs("g.at")

\* C29: the registry is looked up with the node kind stripped of one
\* trailing "_" and split into namespace and op name; the domain is "" for
\* namespace aten, "" for namespace quantized unless the Caffe2 ATen fallback
\* is active (then "caffe2"), and the namespace itself otherwise.  The
\* registered function is called exactly when the registry holds that key.
C29_LookupKeyOfNode ==
    rs.pc = "done" =>
        /\ rs.lookup = Some(<<OwnDomain, rs.n.op, export_onnx_opset_version>>)
        /\ CalleeIs("symbolic_fn") <=> rs.lookup[1] \in rs.registry

\* C29 witness: quantized::add_ under the Caffe2 ATen fallback, registered
\* in domain caffe2 only: the registered function has been called
C29_Witness ==
    /\ rs.pc = "done"
    /\ Kind(rs.n) = "quantized::add_"
    /\ rs.operator_export_type = "ONNX_ATEN_FALLBACK"
    /\ CAFFE2_ATEN_FALLBACK
    /\ rs.registry = {<<"caffe2", "add", export_onnx_opset_version>>}
    /\ rs.lookup = Some(<<"caffe2", "add", export_onnx_opset_version>>)
    /\ CalleeIs("symbolic_fn")

\* the attributes of the node that was passed, each under its name followed
\* by "_" and the first letter of its kind
RenamedAttrs ==
    IF rs.n.attrs = <<>> THEN <<>> ELSE << <<"axes_i", 0>> >>

\* C30: in every operator export type, a node of the onnx namespace without
\* a registered translation is re-created through g.op with the same op
\* name, the same inputs, the same number of outputs and each attribute
\* renamed to its name, "_" and the first letter of its kind; neither the
\* ATen fallback (g.at) is taken, also in ONNX_ATEN, nor is the
\* unsupported-operator error raised.
C30_OnnxNodeCloned ==
    (rs.pc = "done" /\ rs.n.ns = "onnx" /\ ~TranslationRegistered) =>
        /\ CalleeIs("g.op")
        /\ rs.called[1].args = [opname |-> rs.n.op,
                                positional |-> "*inputs",
                                attrs |-> RenamedAttrs,
                                outputs |-> rs.n.outputsSize]
        /\ rs.outcome = Returns =>
              (rs.exc = None /\ rs.value = Some([by |-> "g.op",
                                                  args |-> rs.called[1].args]))
        /\ rs.exc # None => rs.exc[1].type # "UnsupportedOperatorError"

\* C30 witness: onnx::add with an attribute of kind "is" and two outputs,
\* in ONNX_ATEN, has been cloned through g.op
C30_Witness ==
    /\ rs.pc = "done"
    /\ Kind(rs.n) = "onnx::add"
    /\ rs.n.attrs # <<>>
    /\ rs.n.outputsSize = 2
    /\ rs.operator_export_type = "ONNX_ATEN"
    /\ rs.registry = {}
    /\ CalleeIs("g.op")
    /\ rs.called[1].args.attrs = << <<"axes_i", 0>> >>
    /\ rs.exc = None

---------------------------------------------------------------------------
(* Properties of unconvertible_ops *)

\* all nodes of a graph, the nodes inside the blocks of its nodes included
AllNodes(graph) ==
    {graph[i] : i \in 1..Len(graph)}
    \cup UNION {UNION {{graph[i].blocks[k][j] : j \in 1..Len(graph[i].blocks[k])} :
                          k \in 1..Len(graph[i].blocks)} :
                   i \in 1..Len(graph)}

\* C19: unconvertible_ops returns, without raising an unsupported-operator
\* error, the kind strings of all nodes of the converted graph (nodes inside
\* nested blocks included) whose namespace is outside {onnx, prim}, and of no
\* other node.
C19_AllUnconvertibleKindsReturned ==
    \A r \in 1..Len(uo.results) :
        /\ uo.results[r].exc # "UnsupportedOperatorError"
        /\ uo.results[r].exc = "none" =>
             LET graph == uo.results[r].graph[1]
                 ops == uo.results[r].unsupported_ops[1]
             IN  {ops[i] : i \in 1..Len(ops)}
                   = {NodeKind(n) : n \in {m \in AllNodes(graph) :
                                             m.ns \notin {"onnx", "prim"}}}

\* C20: running unconvertible_ops twice in a row with the same model, args,
\* training and opset_version returns the same list of unconvertible
\* operator kinds.
C20_ScanIdempotent ==
    uo.pc = "done" =>
        /\ uo.results[1].unsupported_ops = uo.results[2].unsupported_ops
        /\ uo.results[1].exc = uo.results[2].exc

\* C20 witness: two scans in TRAINING mode of a model in eval mode, in a
\* process left at opset 12 by an earlier export, have both returned the
\* unconverted custom op and the training-only op
C20_Witness ==
    /\ uo.pc = "done"
    /\ uo.training = "TRAINING"
    /\ uo.opset_version = None
    /\ uo.model = [graph |-> <<Leaf("custom", "add"), Leaf("aten", "add")>>,
                   train_only |-> TRUE]
    /\ uo.registry = {<<"", "add", TrainingOpset>>}
    /\ ~model_training
    /\ uo.results[1].unsupported_ops = Some(<<"custom::add", "aten::add", "aten::dropout">>)
    /\ uo.results[2].unsupported_ops = Some(<<"custom::add", "aten::add", "aten::dropout">>)

---------------------------------------------------------------------------
(* Properties of _model_to_graph *)

\* the debug names of the inputs of a graph
InputDebugNames(graph) ==
    {graph.names[graph.inputs[i]] : i \in 1..Len(graph.inputs)}

\* the params dict has been built and _model_to_graph has not returned
ParamsDictBuilt == mg.pc \in {"built", "optimized", "named", "pruned", "raised"}

C22_ContextCarriesParamsDict ==
    (mg.pc = "optimized" /\ mg.ctx # None) =>
        /\ DOMAIN mg.ctx[1].params_dict = DOMAIN mg.params_dict
        /\ \A k \in DOMAIN mg.params_dict :
              mg.ctx[1].params_dict[k] = mg.params_dict[k]

\* the values of a graph
GraphValues(graph) ==
    {graph.inputs[i] : i \in 1..Len(graph.inputs)} \cup UsedValues(graph) \cup
    {GraphNodes(graph)[k].output : k \in 1..Len(GraphNodes(graph))}

\* C26 as stated: after _model_to_graph returns, no value of the resulting
\* graph is identified only by its numeric id.
C26_NoValueKnownByNumberOnly ==
    mg.pc = "done" =>
        \A v \in GraphValues(mg.returned[1].graph) :
            mg.returned[1].graph.names[v] # DefaultDebugName(v)

---------------------------------------------------------------------------
(* Properties of _optimize_graph *)

\* the passes of the claimed order that run whatever the arguments are, and
\* those that depend on them
ClaimedOrder ==
    <<"inline", "inline_fork_wait", "lower_all_tuples">>
    \o (IF og._disable_torch_constant_prop = "False"
        THEN <<"constant_propagation">> ELSE <<>>)
    \o <<"_split_tensor_list_constants", "onnx_remove_inplace_ops_for_onnx",
         "prepare_division_for_onnx", "erase_number_types">>
    \o (IF onnx_shape_inference THEN <<"onnx_set_dynamic_input_shape">> ELSE <<>>)
    \o <<"onnx", "onnx_scalar_type_analysis", "onnx_peephole",
         "dce_allow_deleting_nodes_with_side_effects", "canonicalize">>
    \o (IF onnx_shape_inference THEN <<"onnx_graph_shape_type_inference">> ELSE <<>>)

\* the passes that work on the graph before its translation
SourceDomainPasses ==
    {"inline", "inline_fork_wait", "lower_all_tuples", "constant_propagation",
     "_split_tensor_list_constants", "dce", "canonicalize_graph_fuser_ops",
     "peephole", "fuse_addmm", "onnx_remove_inplace_ops_for_onnx",
     "onnx_preprocess", "prepare_division_for_onnx", "onnx_remove_print",
     "onnx_preprocess_caffe2", "onnx_unpack_quantized_weights",
     "onnx_quantization_insert_permutes", "custom_pattern_based_rewrite_graph",
     "erase_number_types"}

Positions(log, pass) == {i \in 1..Len(log) : log[i] = pass}

\* order[k..] can be read off log[i..] from left to right
RECURSIVE InOrder(_, _, _, _)
InOrder(order, k, log, i) ==
    IF k > Len(order) THEN TRUE
    ELSE IF i > Len(log) THEN FALSE
    ELSE IF log[i] = order[k] THEN InOrder(order, k + 1, log, i + 1)
    ELSE InOrder(order, k, log, i + 1)

\* C27: in every run of _optimize_graph the passes execute in the order
\* inline calls, inline fork/wait, lower tuples, constant propagation (only
\* when _disable_torch_constant_prop is False), split tensor-list constants,
\* remove in-place ops, prepare division, erase number types, set dynamic
\* input shapes (only when shape inference is on), translation, scalar type
\* analysis, ONNX peephole, dead-code elimination tolerating side effects,
\* canonicalize, graph shape/type inference (only when shape inference is
\* on); number types are erased before the translation, which runs once,
\* and no source-domain pass runs after it.
C27_PassOrder ==
    og.pc = "done" =>
        /\ InOrder(ClaimedOrder, 1, og.log, 1)
        /\ Positions(og.log, "constant_propagation") # {}
              <=> og._disable_torch_constant_prop = "False"
        /\ Positions(og.log, "onnx_set_dynamic_input_shape") # {}
              <=> onnx_shape_inference
        /\ Positions(og.log, "onnx_graph_shape_type_inference") # {}
              <=> onnx_shape_inference
        /\ Cardinality(Positions(og.log, "onnx")) = 1
        /\ Cardinality(Positions(og.log, "erase_number_types")) = 1
        /\ \A e \in Positions(og.log, "erase_number_types"),
              t \in Positions(og.log, "onnx") : e < t
        /\ \A t \in Positions(og.log, "onnx"), i \in 1..Len(og.log) :
              i > t => og.log[i] \notin SourceDomainPasses

\* C27 witness: a finished run with constant propagation disabled, shape
\* inference on and the Caffe2 passes
C27_Witness ==
    /\ og.pc = "done"
    /\ og._disable_torch_constant_prop = "True"
    /\ og.operator_export_type = "ONNX_ATEN_FALLBACK"
    /\ CAFFE2_ATEN_FALLBACK
    /\ onnx_shape_inference
    /\ Positions(og.log, "onnx_quantization_insert_permutes") # {}
    /\ og.log[Len(og.log)] = "onnx_graph_shape_type_inference"

---------------------------------------------------------------------------
(* Properties of _split_tensor_list_constants *)

\* the list-of-tensor constants among the nodes of a graph, at any depth
ListConstants(nodes) == {n \in AllNodes(nodes) : _is_constant_tensor_list(n)}

\* the values read by a node of the graph, at any depth, or returned by it
ValuesRead(g) ==
    {g.outputs[i] : i \in 1..Len(g.outputs)} \cup
    UNION {{n.inputs[j] : j \in 1..Len(n.inputs)} : n \in AllNodes(g.nodes)}

\* lc is a prim::ListConstruct of one individual constant per element of c
ConstructsElementsOf(lc, c, g) ==
    /\ lc.kind = "prim::ListConstruct"
    /\ Len(lc.inputs) = Len(c.value)
    /\ \A j \in 1..Len(c.value) :
          \E k \in AllNodes(g.nodes) :
              /\ k.kind = "prim::Constant"
              /\ k.type \in {"Tensor", "NoneType"}
              /\ k.output = lc.inputs[j]
              /\ k.value = <<c.value[j]>>

\* each list-of-tensor constant of the graph that was passed has its
\* ListConstruct in the graph, and nothing reads the constant any more
UsesRedirected ==
    \A c \in ListConstants(st.graph0.nodes) :
        /\ c.output \notin ValuesRead(st.graph)
        /\ \E lc \in AllNodes(st.graph.nodes) :
              /\ ConstructsElementsOf(lc, c, st.graph)
              /\ c.output \in ValuesRead(st.graph0)
                    => lc.output \in ValuesRead(st.graph)

OneListConstructEach ==
    Cardinality({n \in AllNodes(st.graph.nodes) : n.kind = "prim::ListConstruct"})
        = Cardinality(ListConstants(st.graph0.nodes))

\* C25 as stated: after _split_tensor_list_constants, for each prim::Constant
\* whose value is a list of tensors the graph holds one prim::ListConstruct
\* whose inputs are one individual constant per list element, all uses of the
\* old constant read the ListConstruct instead, and no list-of-tensor
\* constant is left in the graph, at any block nesting depth.
C25_ListConstantsReplaced ==
    st.pc = "done" =>
        /\ UsesRedirected
        /\ OneListConstructEach
        /\ ListConstants(st.graph.nodes) = {}

\* C25 amended: after _split_tensor_list_constants, for each prim::Constant
\* whose value is a list of tensors the graph holds one prim::ListConstruct
\* whose inputs are one individual constant per list element, and all uses
\* of the old constant read the ListConstruct instead, at any block nesting
\* depth; the old constant nodes stay in the graph, read by nothing.
C25_ListConstantsSplitAndLeftUnused ==
    st.pc = "done" =>
        /\ UsesRedirected
        /\ OneListConstructEach
        /\ ListConstants(st.graph.nodes) = ListConstants(st.graph0.nodes)

\* C25 witness: a two-tensor list constant at the top level and one inside
\* the block of a prim::If, both read by a node of that block, have been
\* split
C25_Witness ==
    /\ st.pc = "done"
    /\ Cardinality(ListConstants(st.graph0.nodes)) = 2
    /\ st.graph0.nodes[1].value = Tensors(2)
    /\ st.graph0.nodes[2].blocks[1][2].inputs = <<1, 3>>
    /\ Len(st.graph.nodes) = 5
    /\ Len(st.graph.nodes[5].blocks[1]) = 5
    /\ st.graph.nodes[5].blocks[1][5].inputs = <<7, 10>>

---------------------------------------------------------------------------
(* Properties of the body of _export *)

\* the calls recorded in the log of the export
Logged(call) == \E i \in 1..Len(ex.log) : ex.log[i] = call

\* the export wrote its output and went past the checker
PastChecker == ex.pc \in {"done", "raised"} /\ Logged("write")

\* C23: in an export that has written its output, the checker has run
\* exactly if the operator export type is ONNX and the serialized model does
\* not use external data; a RuntimeError of the checker leaves _export as a
\* CheckerError, and an export whose checker did not run raises nothing.
C23_CheckerRunsForInMemoryOnnx ==
    PastChecker =>
        /\ Logged("_check_onnx_proto")
              <=> (ex.operator_export_type = "ONNX"
                   /\ ~ex.val_use_external_data_format)
        /\ ex.checker = "RuntimeError" => ex.exc = "CheckerError"
        /\ ex.exc = "CheckerError" => ex.checker = "RuntimeError"
        /\ ~Logged("_check_onnx_proto") => ex.exc = "none" /\ ex.pc = "done"

\* C23 witness: the checker rejected the in-memory proto of an ONNX export
\* into a zip archive
C23_Witness ==
    /\ PastChecker
    /\ ex.operator_export_type = "ONNX"
    /\ ex.export_type = "ZIP_ARCHIVE"
    /\ ~ex.val_use_external_data_format
    /\ ex.checker = "RuntimeError"
    /\ ex.exc = "CheckerError"

\* C24 as stated: an export_type that is no member of ExportTypes makes
\* _export raise 'Unknown export type' before the model is traced, converted
\* or serialized, and nothing is written.
C24_UnknownExportTypeFailsFirst ==
    (ex.pc # "idle" /\ ex.export_type \notin ExportTypes) =>
        /\ ~Logged("_model_to_graph")
        /\ ~Logged("_export_onnx")
        /\ ex.written = {}
        /\ ex.pc \in {"done", "raised"}
              => ex.exc = "RuntimeError" /\ ex.message = "Unknown export type"

\* the entries of a complete output: the proto alone in a protobuf file, the
\* model and one entry per exported parameter in an archive or a directory
CompleteOutput ==
    IF ex.export_type = "PROTOBUF_FILE" THEN {"proto"}
    ELSE {ONNX_ARCHIVE_MODEL_PROTO_NAME}
         \cup (IF ex.export_params THEN ex.params ELSE {})

\* C33 as stated: whenever _export terminates with an error, a CheckerError
\* included, nothing has been written to the destination f.
C33_NothingWrittenOnError ==
    (ex.pc = "raised") => ex.written = {}

\* C33 amended: whenever _export terminates with an error raised before its
\* write step (lines 741-768), nothing has been written to the destination
\* f; an error of the post-serialization check, CheckerError included, is
\* raised after the complete output has been written, and an error of the
\* write step leaves the entries written before it.
C33_NothingWrittenOnErrorBeforeWrite ==
    (ex.pc = "raised") =>
        /\ (~Logged("write") /\ ~Logged("write interrupted")) => ex.written = {}
        /\ Logged("_check_onnx_proto") => ex.written = CompleteOutput
        /\ Logged("write interrupted")
              => (ex.written \subseteq CompleteOutput /\ ex.written # CompleteOutput)

\* C33 witness: an export into a directory, with one deferred weight, that
\* ends with a CheckerError
C33_Witness ==
    /\ ex.pc = "raised"
    /\ ex.exc = "CheckerError"
    /\ ex.export_type = "DIRECTORY"
    /\ ex.written = {ONNX_ARCHIVE_MODEL_PROTO_NAME, "weight"}

---------------------------------------------------------------------------
(* Properties of register_custom_op_symbolic and unregister_custom_op_symbolic *)

\* the supported opset versions that are at least v
SupportedFrom(v) == {w \in 1..(onnx_main_opset + 1) : IsSupportedOpset(w) /\ w >= v}

\* the domain a namespace is stored under
StoredDomain(ns) == IF ns = "aten" THEN "" ELSE ns

\* the registry keys the call l is about
KeysOf(l) ==
    {<<StoredDomain(SplitName(l.symbolic_name).ns),
       SplitName(l.symbolic_name).op_name, w>> : w \in SupportedFrom(l.opset_version)}

\* the call l names no Domain::Name, or names the onnx namespace
Rejected(l) ==
    \/ ~Matches(l.symbolic_name)
    \/ SplitName(l.symbolic_name).ns = "onnx"

\* registry r is registry b except at the keys K
SameOutside(r, b, K) ==
    /\ DOMAIN r \ K = DOMAIN b \ K
    /\ \A k \in DOMAIN r \ K : r[k] = b[k]

---------------------------------------------------------------------------
(* Properties of _export called from two threads *)

\* the threads between setting the flag and clearing it
InWorkPhase == {t \in Threads : th.threads[t].pc \in WorkPhase}

\* the cleanup of a call found the flag cleared
CleanupFailed == \E t \in Threads : th.threads[t].pc = "failed"

\* C32 as stated: with two threads calling _export, at most one of them is
\* between setting the flag and clearing it, and the cleanup of every call
\* finds the flag set.
C32_FlagExcludesThreads ==
    th.pc # "idle" => (Cardinality(InWorkPhase) <= 1 /\ ~CleanupFailed)

\* C32 amended: with two threads calling _export, as long as neither thread
\* has read the flag (line 669) between the other thread's read and its
\* assignment of line 670, at most one of them is between setting the flag
\* and clearing it, and the cleanup of every call finds the flag set.
C32_FlagExcludesThreadsWithoutInterleaving ==
    (th.pc # "idle" /\ ~th.interleaved) =>
        (Cardinality(InWorkPhase) <= 1 /\ ~CleanupFailed)

\* C32 witness: without such an interleaving, thread 2 called _export while
\* thread 1 was in its work phase, and was turned away by the assertion
C32_Witness ==
    /\ th.pc # "idle"
    /\ ~th.interleaved
    /\ th.threads[1].pc = "finally"
    /\ th.threads[2].pc = "rejected"
    /\ th.threads[2].exc = "AssertionError"
    /\ IN_ONNX_EXPORT

---------------------------------------------------------------------------
(* Properties of export_to_pretty_string and unconvertible_ops *)

\* the frame on top is export_to_pretty_string or unconvertible_ops,
\* converting its model
DiagnosticConverting ==
    /\ stack # <<>>
    /\ Top.fn \in {"export_to_pretty_string", "unconvertible_ops"}
    /\ Top.pc = "work"

\* C34 as stated: while export_to_pretty_string or unconvertible_ops is
\* converting a model is_in_onnx_export() is True, and neither of them is
\* converting after a call made while an export was in flight.
C34_DiagnosticsTakePartInGuard ==
    DiagnosticConverting => (is_in_onnx_export /\ ~Top.in_export_at_entry)

---------------------------------------------------------------------------
(* Properties of unconvertible_ops after earlier exports *)

\* C35: two runs of unconvertible_ops with equal arguments and equal registry
\* give equal results (graph, list of unconvertible kinds, exception),
\* whatever calls of _export or export_to_pretty_string preceded each of them.
C35_ScanIndependentOfEarlierExports ==
    uo.pc = "done" => uo.results[1] = uo.results[2]

============================================================================
